---- MODULE Spec2Model ----
(***************************************************************************)
(* Model of alt_text_llm: the patcher (apply.py) and the scanner (scan.py). *)
(*                                                                         *)
(* Text is a sequence of symbols.  A symbol is one character, or one fixed  *)
(* multi-character token that the regular expressions of apply.py only     *)
(* ever match as a whole ("<img", "src=", "alt=", an asset path, a word).   *)
(* Optional values (Python's None) are sequences of length 0 or 1:         *)
(* <<>> is None and <<v>> is the value v.                                   *)
(***************************************************************************)
EXTENDS Integers, Sequences, FiniteSets, TLC

\* ---------------------------------------------------------------------
\* Symbols
\* ---------------------------------------------------------------------

LF == "\n"
CR == "\r"
FF == "\f"
QUOTE == "\""

\* Characters at which str.splitlines() ends a line.
LineBoundaries == {LF, CR, FF}

\* Characters matched by \s in a Python regular expression.
Whitespace == {" ", LF, CR, FF}

\* <img in the two spellings the model distinguishes.
ImgOpen == {"<img", "<IMG"}
SrcAttr == {"src=", "SRC="}
AltAttr == {"alt=", "ALT="}

None == <<>>
Some(v) == <<v>>

\* ---------------------------------------------------------------------
\* Sequence helpers (Python str primitives)
\* ---------------------------------------------------------------------

Min(S) == CHOOSE m \in S : \A k \in S : m <= k

Max(S) == CHOOSE m \in S : \A k \in S : m >= k

\* First index k >= from with s[k] \in S, or 0 when there is none.
FirstIn(s, from, S) ==
    LET ks == {k \in from..Len(s) : s[k] \in S}
    IN IF ks = {} THEN 0 ELSE Min(ks)

\* First index k >= from with s[k] \notin S, or 0 when there is none.
FirstNotIn(s, from, S) ==
    LET ks == {k \in from..Len(s) : s[k] \notin S}
    IN IF ks = {} THEN 0 ELSE Min(ks)

\* s[a..b], empty when a > b.
Slice(s, a, b) == IF a > b THEN <<>> ELSE SubSeq(s, a, b)

\* pat occurs in s starting at index i.
OccursAt(s, pat, i) ==
    /\ i >= 1
    /\ i + Len(pat) - 1 <= Len(s)
    /\ \A k \in 1..Len(pat) : s[i + k - 1] = pat[k]

\* str.find: first index >= from where pat occurs in s, or 0.
Find(s, pat, from) ==
    LET ks == {k \in from..Len(s) : OccursAt(s, pat, k)}
    IN IF ks = {} THEN 0 ELSE Min(ks)

\* `pat in s`
Contains(s, pat) == Find(s, pat, 1) # 0

\* str.endswith("\n")
EndsWithNewline(s) == Len(s) > 0 /\ s[Len(s)] = LF

\* str.replace(old, new): every non-overlapping occurrence, left to right.
RECURSIVE Replace(_, _, _)
Replace(s, old, new) ==
    IF Len(old) = 0 THEN s
    ELSE LET i == Find(s, old, 1)
         IN IF i = 0 THEN s
            ELSE Slice(s, 1, i - 1) \o new
                 \o Replace(Slice(s, i + Len(old), Len(s)), old, new)

\* str.strip() on the model's whitespace.
Strip(s) ==
    LET a == FirstNotIn(s, 1, Whitespace)
    IN IF a = 0 THEN <<>>
       ELSE Slice(s, a, Max({k \in 1..Len(s) : s[k] \notin Whitespace}))

\* ---------------------------------------------------------------------
\* File text: Path.read_text / str.splitlines / "\n".join
\* ---------------------------------------------------------------------

\* Path.read_text(encoding="utf-8") opens the file with universal newlines:
\* "\r\n" and a lone "\r" are both read as "\n".
RECURSIVE ReadText(_)
ReadText(bytes) ==
    IF bytes = <<>> THEN <<>>
    ELSE IF bytes[1] = CR
         THEN IF Len(bytes) >= 2 /\ bytes[2] = LF
              THEN <<LF>> \o ReadText(Slice(bytes, 3, Len(bytes)))
              ELSE <<LF>> \o ReadText(Tail(bytes))
         ELSE <<bytes[1]>> \o ReadText(Tail(bytes))

\* str.splitlines(): lines end at every line boundary ("\r\n" counts once);
\* the terminators are dropped and a final terminator opens no empty line.
RECURSIVE SplitLines(_)
SplitLines(text) ==
    IF text = <<>> THEN <<>>
    ELSE LET b == FirstIn(text, 1, LineBoundaries)
         IN IF b = 0 THEN <<text>>
            ELSE LET n == IF text[b] = CR /\ b < Len(text) /\ text[b + 1] = LF
                          THEN b + 2 ELSE b + 1
                 IN <<Slice(text, 1, b - 1)>>
                    \o SplitLines(Slice(text, n, Len(text)))

\* "\n".join(lines)
RECURSIVE JoinLines(_)
JoinLines(lines) ==
    IF lines = <<>> THEN <<>>
    ELSE IF Len(lines) = 1 THEN lines[1]
         ELSE lines[1] \o <<LF>> \o JoinLines(Tail(lines))

\* ---------------------------------------------------------------------
\* apply.py: the three recognizers
\* ---------------------------------------------------------------------

\* Where the pattern  !\[([^\]]*)\]\(<path>\s*\)  matches at index i:
\* <<index of the closing "]", index of the closing ")">>, or <<>>.
MarkdownMatchAt(line, asset_path, i) ==
    IF ~OccursAt(line, <<"!", "[">>, i) THEN <<>>
    ELSE LET j == FirstIn(line, i + 2, {"]"})
         IN IF j = 0 \/ ~OccursAt(line, <<"(", asset_path>>, j + 1) THEN <<>>
            ELSE LET k == FirstNotIn(line, j + 3, Whitespace)
                 IN IF k # 0 /\ line[k] = ")" THEN <<j, k>> ELSE <<>>

\* The rewrite made at the last match instead of the first.
_apply_markdown_image_alt_LastMatch(line, asset_path, new_alt) ==
    LET starts == {i \in 1..Len(line) :
                       MarkdownMatchAt(line, asset_path, i) # <<>>}
    IN IF starts = {} THEN <<line, None>>
       ELSE LET i == Max(starts)
                m == MarkdownMatchAt(line, asset_path, i)
                group1 == Slice(line, i + 2, m[1] - 1)
                old_alt == IF group1 # <<>> THEN Some(group1) ELSE None
                new_line == Slice(line, 1, i - 1)
                            \o <<"!", "[">> \o new_alt
                            \o <<"]", "(", asset_path, ")">>
                            \o Slice(line, m[2] + 1, Len(line))
            IN <<new_line, old_alt>>

\* _apply_markdown_image_alt: <<new line, old alt or None>>
_apply_markdown_image_alt(line, asset_path, new_alt) ==
    LET starts == {i \in 1..Len(line) :
                       MarkdownMatchAt(line, asset_path, i) # <<>>}
    IN IF starts = {} THEN <<line, None>>
       ELSE LET i == Min(starts)
                m == MarkdownMatchAt(line, asset_path, i)
                group1 == Slice(line, i + 2, m[1] - 1)
                old_alt == IF group1 # <<>> THEN Some(group1) ELSE None
                new_line == Slice(line, 1, i - 1)
                            \o <<"!", "[">> \o new_alt
                            \o <<"]", "(", asset_path, ")">>
                            \o Slice(line, m[2] + 1, Len(line))
            IN <<new_line, old_alt>>

\* Where the pattern  !\[\[<path>(?:\|([^\]]*))?\]\]  matches at index i:
\* <<first index of the alt, last index of the alt, index of the last "]">>
\* (first > last when the embed has no "|alt" part), or <<>>.
WikilinkMatchAt(line, asset_path, i) ==
    IF ~OccursAt(line, <<"!", "[", "[", asset_path>>, i) THEN <<>>
    ELSE IF OccursAt(line, <<"|">>, i + 4)
         THEN LET j == FirstIn(line, i + 5, {"]"})
              IN IF j # 0 /\ OccursAt(line, <<"]", "]">>, j)
                 THEN <<i + 5, j - 1, j + 1>> ELSE <<>>
         ELSE IF OccursAt(line, <<"]", "]">>, i + 4)
              THEN <<1, 0, i + 5>> ELSE <<>>

\* The rewrite that keeps an embed without alt as it is.
_apply_wikilink_image_alt_KeepsBare(line, asset_path, new_alt) ==
    LET starts == {i \in 1..Len(line) :
                       WikilinkMatchAt(line, asset_path, i) # <<>>}
    IN IF starts = {} THEN <<line, None>>
       ELSE LET i == Min(starts)
                m == WikilinkMatchAt(line, asset_path, i)
                group1 == Slice(line, m[1], m[2])
                old_alt == IF group1 # <<>> THEN Some(group1) ELSE None
                new_line == Slice(line, 1, i - 1)
                            \o <<"!", "[", "[", asset_path>>
                            \o (IF m[1] > m[2] THEN <<>>
                                ELSE <<"|">> \o new_alt)
                            \o <<"]", "]">>
                            \o Slice(line, m[3] + 1, Len(line))
            IN <<new_line, old_alt>>

\* _apply_wikilink_image_alt: <<new line, old alt or None>>
_apply_wikilink_image_alt(line, asset_path, new_alt) ==
    LET starts == {i \in 1..Len(line) :
                       WikilinkMatchAt(line, asset_path, i) # <<>>}
    IN IF starts = {} THEN <<line, None>>
       ELSE LET i == Min(starts)
                m == WikilinkMatchAt(line, asset_path, i)
                group1 == Slice(line, m[1], m[2])
                old_alt == IF group1 # <<>> THEN Some(group1) ELSE None
                new_line == Slice(line, 1, i - 1)
                            \o <<"!", "[", "[", asset_path, "|">> \o new_alt
                            \o <<"]", "]">>
                            \o Slice(line, m[3] + 1, Len(line))
            IN <<new_line, old_alt>>

\* src="<path>" occurs at index k (re.IGNORECASE on the attribute name).
SrcAt(s, asset_path, k) ==
    /\ k >= 1 /\ k + 3 <= Len(s)
    /\ s[k] \in SrcAttr
    /\ OccursAt(s, <<QUOTE, asset_path, QUOTE>>, k + 1)

\* Where  <img\s+([^>]*src="<path>"[^/>]*?)(\s*)(/?)>  matches at index i:
\* the record of its groups, or <<>>.
ImgMatchAt(line, asset_path, i) ==
    IF ~(i <= Len(line) /\ line[i] \in ImgOpen) THEN <<>>
    ELSE LET e == FirstIn(line, i + 1, {">"})
             a == FirstNotIn(line, i + 1, Whitespace)
         IN IF e = 0 \/ a = 0 \/ a = i + 1 THEN <<>>
            ELSE LET hasSlash == line[e - 1] = "/"
                     t == IF hasSlash THEN e - 2 ELSE e - 1
                     \* src="<path>" followed by no "/" up to the tag's end
                     srcs == {k \in a..(t - 3) :
                                 /\ SrcAt(line, asset_path, k)
                                 /\ \A x \in (k + 4)..t : line[x] # "/"}
                 IN IF srcs = {} THEN <<>>
                    ELSE LET k == Max(srcs)
                             nws == {x \in (k + 3)..t : line[x] \notin Whitespace}
                             g1end == Max(nws)
                         IN <<[attrs |-> Slice(line, a, g1end),
                               ws |-> Slice(line, g1end + 1, t),
                               slash |-> IF hasSlash THEN <<"/">> ELSE <<>>]>>

\* First match of  alt="([^"]*)"  in attrs (re.IGNORECASE):
\* <<index of alt=, index of the closing quote>>, or <<>>.
AltMatch(attrs) ==
    LET starts == {i \in 1..Len(attrs) :
                      /\ attrs[i] \in AltAttr
                      /\ OccursAt(attrs, <<QUOTE>>, i + 1)
                      /\ FirstIn(attrs, i + 2, {QUOTE}) # 0}
    IN IF starts = {} THEN <<>>
       ELSE <<Min(starts), FirstIn(attrs, Min(starts) + 2, {QUOTE})>>

\* The tag text  <img {attrs}{whitespace_before_close}{closing_slash}>
ImgTag(attrs, m) ==
    <<"<img", " ">> \o attrs \o m.ws \o m.slash \o <<">">>

\* img_attrs with the value of its first alt attribute replaced.
ReplaceAlt(img_attrs, new_alt, alt_match) ==
    Slice(img_attrs, 1, alt_match[1] - 1)
    \o <<"alt=", QUOTE>> \o new_alt \o <<QUOTE>>
    \o Slice(img_attrs, alt_match[2] + 1, Len(img_attrs))

\* img_attrs with alt="new_alt" and a space inserted before index src_at.
InsertAlt(img_attrs, new_alt, src_at) ==
    Slice(img_attrs, 1, src_at - 1)
    \o <<"alt=", QUOTE>> \o new_alt \o <<QUOTE, " ">>
    \o Slice(img_attrs, src_at, Len(img_attrs))

\* The first src="<path>" in img_attrs.
FirstSrc(img_attrs, asset_path) ==
    Min({k \in 1..Len(img_attrs) : SrcAt(img_attrs, asset_path, k)})

\* The rewrite of the matched tag, given the match of alt_pattern.
RewriteImg(line, asset_path, new_alt, m, img_attrs, alt_match) ==
    IF alt_match # <<>>
    THEN <<Replace(line, ImgTag(img_attrs, m),
                   ImgTag(ReplaceAlt(img_attrs, new_alt, alt_match), m)),
           Some(Slice(img_attrs, alt_match[1] + 2, alt_match[2] - 1))>>
    ELSE <<Replace(line, ImgTag(img_attrs, m),
                   ImgTag(InsertAlt(img_attrs, new_alt,
                                    FirstSrc(img_attrs, asset_path)), m)),
           None>>

\* The rewrite of the tag matched with groups m.
RewriteImgTag(line, asset_path, new_alt, m, img_attrs) ==
    RewriteImg(line, asset_path, new_alt, m, img_attrs, AltMatch(img_attrs))

\* The index where re.search finds img_pattern in line, or 0.
ImgSearch(line, asset_path) ==
    FirstIn([i \in 1..Len(line) |->
                IF ImgMatchAt(line, asset_path, i) # <<>> THEN "m" ELSE ""],
            1, {"m"})

\* The rewrite of the tag that starts at index start.
RewriteImgAt(line, asset_path, new_alt, start) ==
    IF start = 0 THEN <<line, None>>
    ELSE RewriteImgTag(line, asset_path, new_alt,
                       ImgMatchAt(line, asset_path, start)[1],
                       Strip(ImgMatchAt(line, asset_path, start)[1].attrs))

\* _apply_html_image_alt: <<new line, old alt or None>>
_apply_html_image_alt(line, asset_path, new_alt) ==
    RewriteImgAt(line, asset_path, new_alt, ImgSearch(line, asset_path))

\* ---------------------------------------------------------------------
\* apply.py: _apply_caption_to_file
\* ---------------------------------------------------------------------

\* The range check without its lower bound.
LineOutOfRange_NoLowerBound(target_line, lines) ==
    target_line > Len(lines)

\* The range check guarding the access to the target line.
LineOutOfRange(target_line, lines) ==
    target_line < 1 \/ target_line > Len(lines)

\* Position (1-based) of lines[line_idx] for a Python list index, which
\* counts from the end when it is negative; 0 when the index is invalid.
PyIndex(lines, line_idx) ==
    LET pos == IF line_idx >= 0 THEN line_idx + 1
               ELSE Len(lines) + line_idx + 1
    IN IF pos >= 1 /\ pos <= Len(lines) THEN pos ELSE 0

\* The result of a recognizer when it changed the line, otherwise the
\* result of the recognizers after it.
FirstChanged(original_line, attempt, later) ==
    IF attempt[1] # original_line THEN attempt ELSE later

\* The cascade with the HTML recognizer tried first.
Cascade_HtmlFirst(original_line, asset_path, final_alt) ==
    FirstChanged(original_line,
        _apply_html_image_alt(original_line, asset_path, final_alt),
        FirstChanged(original_line,
            _apply_markdown_image_alt(original_line, asset_path, final_alt),
            _apply_wikilink_image_alt(original_line, asset_path, final_alt)))

\* The recognizer cascade: markdown image, then wikilink, then HTML img;
\* a later recognizer runs only when the line is still unchanged.
Cascade(original_line, asset_path, final_alt) ==
    FirstChanged(original_line,
        _apply_markdown_image_alt(original_line, asset_path, final_alt),
        FirstChanged(original_line,
            _apply_wikilink_image_alt(original_line, asset_path, final_alt),
            _apply_html_image_alt(original_line, asset_path, final_alt)))

\* The text written back: the lines joined by "\n", with a final "\n" when
\* the text that was read ended with one.
NewContent(lines, source_text) ==
    IF EndsWithNewline(source_text) THEN JoinLines(lines) \o <<LF>>
    ELSE JoinLines(lines)

\* Outcome of one call: the file's bytes afterwards, whether the file was
\* written, the returned value (None, or the pair <<old_alt, new_alt>>) and
\* whether the call raised.
Outcome(content, wrote, result, raised) ==
    [content |-> content, wrote |-> wrote, result |-> result,
     raised |-> raised]

\* The end of _apply_caption_to_file with the write placed before the
\* check that the line changed.
WriteBack_WriteFirst(bytes, source_text, lines, pos, c, final_alt, dry) ==
    IF c[1] = lines[pos]
    THEN Outcome(IF dry THEN bytes ELSE NewContent(lines, source_text),
                 ~dry, None, FALSE)
    ELSE Outcome(IF dry THEN bytes
                 ELSE NewContent([lines EXCEPT ![pos] = c[1]], source_text),
                 ~dry, Some(<<c[2], final_alt>>), FALSE)

\* The end of _apply_caption_to_file without the test of dry_run.
WriteBack_IgnoresDryRun(bytes, source_text, lines, pos, c, final_alt, dry) ==
    IF c[1] = lines[pos]
    THEN Outcome(bytes, FALSE, None, FALSE)
    ELSE Outcome(NewContent([lines EXCEPT ![pos] = c[1]], source_text),
                 TRUE, Some(<<c[2], final_alt>>), FALSE)

\* The end of _apply_caption_to_file: c is the cascade's result for the
\* target line lines[pos].
WriteBack(bytes, source_text, lines, pos, c, final_alt, dry) ==
    IF c[1] = lines[pos]
    THEN Outcome(bytes, FALSE, None, FALSE)
    ELSE Outcome(IF dry THEN bytes
                 ELSE NewContent([lines EXCEPT ![pos] = c[1]], source_text),
                 ~dry, Some(<<c[2], final_alt>>), FALSE)

\* _apply_caption_to_file from the access to the target line on.
ApplyAtIndex(bytes, source_text, lines, pos, caption_item, dry) ==
    IF pos = 0
    THEN Outcome(bytes, FALSE, None, TRUE)          \* IndexError
    ELSE WriteBack(bytes, source_text, lines, pos,
                   Cascade(lines[pos], caption_item.asset_path,
                           caption_item.final_alt[1]),
                   caption_item.final_alt[1], dry)

\* _apply_caption_to_file from the range check on.
ApplyToLines(bytes, source_text, lines, target_line, caption_item, dry) ==
    IF LineOutOfRange(target_line, lines)
    THEN Outcome(bytes, FALSE, None, FALSE)
    ELSE ApplyAtIndex(bytes, source_text, lines,
                      PyIndex(lines, target_line - 1), caption_item, dry)

\* _apply_caption_to_file once the file is read.
ApplyToText(bytes, source_text, caption_item, dry) ==
    ApplyToLines(bytes, source_text, SplitLines(source_text),
                 caption_item.line_number[1], caption_item, dry)

_apply_caption_to_file(bytes, caption_item, dry) ==
    IF caption_item.final_alt = None
    THEN Outcome(bytes, FALSE, None, TRUE)          \* assert final_alt
    ELSE IF caption_item.line_number = None
    THEN Outcome(bytes, FALSE, None, TRUE)          \* None < 1: TypeError
    ELSE ApplyToText(bytes, ReadText(bytes), caption_item, dry)

\* ---------------------------------------------------------------------
\* apply.py: apply_captions
\* ---------------------------------------------------------------------

\* The filter without .strip(): any non-empty final_alt passes.
Usable_NoStrip(item) ==
    /\ item.final_alt # None
    /\ item.final_alt[1] # <<>>

\* item.get("final_alt") and item.get("final_alt").strip()
Usable(item) ==
    /\ item.final_alt # None
    /\ item.final_alt[1] # <<>>
    /\ Strip(item.final_alt[1]) # <<>>

\* The entries of captions_data that are converted to AltGenerationResult.
RECURSIVE SelectUsable(_)
SelectUsable(data) ==
    IF data = <<>> THEN <<>>
    ELSE IF Usable(data[1]) THEN <<data[1]>> \o SelectUsable(Tail(data))
         ELSE SelectUsable(Tail(data))

\* The conversion made for the first entry only before the files are
\* processed.
LoadRaises_FirstOnly(data) ==
    data # <<>> /\ Usable(data[1]) /\ data[1].line_number = None

\* int(item["line_number"]) raises for a usable entry whose line is null.
LoadRaises(data) ==
    \E i \in 1..Len(data) : Usable(data[i]) /\ data[i].line_number = None

\* Path(asset_path).name: the last component of the path.
Basename(asset_path) == IF asset_path = "d/p" THEN "p" ELSE asset_path

\* (markdown_file, basename of asset_path) of the entries without final_alt.
UnusedEntries(data) ==
    {<<data[i].markdown_file, Basename(data[i].asset_path)>> :
        i \in {k \in 1..Len(data) : ~Usable(data[k])}}

\* The place of a file name or base name in the order of Python strings.
StrRank(str) ==
    CASE str = "f1" -> 1 [] str = "f2" -> 2
      [] str = "p" -> 1 [] str = "q" -> 2 [] OTHER -> 0

\* Tuple comparison a < b of two (markdown_file, basename) pairs.
EntryLess(a, b) ==
    \/ StrRank(a[1]) < StrRank(b[1])
    \/ a[1] = b[1] /\ StrRank(a[2]) < StrRank(b[2])

\* sorted(unused_entries)
RECURSIVE SortedEntries(_)
SortedEntries(entries) ==
    IF entries = {} THEN <<>>
    ELSE LET least == CHOOSE a \in entries :
                         \A b \in entries \ {a} : EntryLess(a, b)
         IN <<least>> \o SortedEntries(entries \ {least})

\* by_file: the usable records grouped by markdown_file; the files in the
\* order of their first record, the records of a file in input order.
RECURSIVE GroupByFile(_, _)
GroupByFile(items, acc) ==
    IF items = <<>> THEN acc
    ELSE LET it == items[1]
             at == {k \in 1..Len(acc) : acc[k].md_file = it.markdown_file}
         IN GroupByFile(Tail(items),
              IF at = {}
              THEN Append(acc, [md_file |-> it.markdown_file,
                                items |-> <<it>>])
              ELSE LET k == CHOOSE k \in at : TRUE
                   IN [acc EXCEPT ![k].items = Append(@, it)])

\* The records left in input order.
SortedDescending_Unsorted(items) == items

\* sorted(items, key=lambda x: x.line_number, reverse=True): a stable sort,
\* so records with equal line numbers keep their input order.
RECURSIVE SortedDescending(_)
SortedDescending(items) ==
    IF items = <<>> THEN <<>>
    ELSE LET top == Max({items[k].line_number[1] : k \in 1..Len(items)})
             i == Min({k \in 1..Len(items) : items[k].line_number[1] = top})
         IN <<items[i]>>
            \o SortedDescending(Slice(items, 1, i - 1)
                                \o Slice(items, i + 1, Len(items)))

\* ---------------------------------------------------------------------
\* apply_captions as a function of its inputs
\* ---------------------------------------------------------------------

\* The loop over items_sorted for one file: the file's bytes after the
\* records were applied one after the other (it stops where a call raises).
RECURSIVE ApplyItems(_, _, _)
ApplyRest(out, items, dry) ==
    IF out.raised THEN out.content
    ELSE ApplyItems(out.content, items, dry)

ApplyItems(bytes, items, dry) ==
    IF items = <<>> THEN bytes
    ELSE ApplyRest(_apply_caption_to_file(bytes, items[1], dry),
                   Tail(items), dry)

\* The records among items whose markdown_file is md_file, in order.
RECURSIVE ItemsOf(_, _)
ItemsOf(items, md_file) ==
    IF items = <<>> THEN <<>>
    ELSE IF items[1].markdown_file = md_file
         THEN <<items[1]>> \o ItemsOf(Tail(items), md_file)
         ELSE ItemsOf(Tail(items), md_file)

\* The records of data that apply_captions applies to md_file, in input
\* order.
RecordsOf(data, md_file) == ItemsOf(SelectUsable(data), md_file)

\* The bytes of an existing file md_file after apply_captions(data) ran on
\* a disk where the file held bytes (no call raising in another file).
FinalContent(bytes, data, md_file, dry) ==
    IF LoadRaises(data) THEN bytes
    ELSE ApplyItems(bytes, SortedDescending(RecordsOf(data, md_file)), dry)

\* ---------------------------------------------------------------------
\* Inputs
\* ---------------------------------------------------------------------

\* Longest captions list.
MaxRecords == 2

Files == {"f1", "f2"}

Caption(md, asset, line, alt) ==
    [markdown_file |-> md, asset_path |-> asset, line_number |-> line,
     final_alt |-> alt]

\* Replacement texts holding characters that are special in one of the
\* three syntaxes or in the file's line structure.
HostileAlts ==
    { <<"x", LF, "y">>,
      <<"x", "]", "(", "q", ")">>,
      <<"x", QUOTE, " ", "src=", QUOTE, "q">>,
      <<"x", "$", "\\", "y">> }

BlankAlts == { None, Some(<<>>), Some(<<" ">>) }

\* The records a captions list is drawn from.
CaptionPool ==
    {Caption("f1", "p", Some(n), Some(<<"x">>)) : n \in {1, 2}}
    \cup {Caption("f1", "q", Some(n), Some(<<"x">>)) : n \in {2, 3}}
    \cup {Caption("f1", "p", Some(1), Some(t)) : t \in {<<"y">>} \cup HostileAlts}
    \cup {Caption("f1", "p", Some(n), Some(<<"x">>)) : n \in {0, 4}}
    \cup {Caption("f1", a, None, Some(<<"x">>)) : a \in {"p", "d/p"}}
    \cup { Caption("f1", "q", Some(1), None),
           Caption("f1", "p", Some(1), Some(<<>>)),
           Caption("f1", "d/p", Some(1), Some(<<" ">>)) }
    \cup {Caption("f2", "p", Some(1), Some(<<"y">>))}

RECURSIVE SeqsUpTo(_, _)
SeqsUpTo(S, n) ==
    IF n = 0 THEN {<<>>}
    ELSE LET shorter == SeqsUpTo(S, n - 1)
         IN shorter \cup {Append(q, x) : q \in shorter, x \in S}

CaptionLists == SeqsUpTo(CaptionPool, MaxRecords)

MdP == <<"!", "[", "]", "(", "p", ")">>
MdQ == <<"!", "[", "]", "(", "q", ")">>
MdPOld == <<"!", "[", "x", "]", "(", "p", ")">>
WikiQ == <<"!", "[", "[", "q", "]", "]">>
WikiP == <<"!", "[", "[", "p", "]", "]">>
ImgP == <<"<img", " ", "src=", QUOTE, "p", QUOTE, ">">>

\* The documents: bytes of a markdown file.
Docs ==
    { MdP \o <<LF>>,
      MdP,
      <<"a", LF>> \o MdP \o <<LF>> \o MdQ \o <<LF>>,
      MdP \o <<" ">> \o MdQ \o <<LF>> \o MdPOld \o <<LF>>,
      MdP \o <<CR, LF>> \o MdQ \o <<CR, LF>>,
      MdP \o <<LF, FF>>,
      MdP \o <<FF>> \o MdQ,
      ImgP \o <<LF>> \o WikiQ \o <<LF>>,
      MdP \o <<LF, LF>>,
      MdP \o <<" ">> \o MdP \o <<LF, LF>> \o MdP \o <<LF>>,
      WikiP \o <<" ">> \o ImgP \o <<" ">> \o MdP \o <<LF>> }

\* ---------------------------------------------------------------------
\* scan.py: the scanner
\*
\* md.parse (markdown-it, CommonMark) and BeautifulSoup are modelled for
\* the markup the documents of this model are written in: paragraphs and
\* HTML blocks separated by blank lines, lines that do not start with a
\* space, images ![alt](path) without a title, wikilink embeds, <img>,
\* <video> and <source> tags with quoted src, alt and aria-label
\* attributes, and <div> ... </div> lines.
\* ---------------------------------------------------------------------

\* The asset paths of the model; each stands for a file name with an
\* extension of WIKILINK_ASSET_EXTENSIONS.  "u" is a name with a non-ASCII
\* character and "%u" the same name with that character percent-encoded.
AssetPaths == {"p", "q", "d/p", "v", "u", "%u"}

\* urllib.parse.unquote
Unquote(s) == [k \in 1..Len(s) |-> IF s[k] = "%u" THEN "u" ELSE s[k]]

\* markdown-it's normalizeLink: a non-ASCII character of a destination is
\* percent-encoded, a percent escape is kept.
NormalizeLink(s) == [k \in 1..Len(s) |-> IF s[k] = "u" THEN "%u" ELSE s[k]]

\* The parser's unescapeAll and BeautifulSoup's attribute decoding: the
\* name "e&amp;" is written with a character reference and reads "e&".
Unescape(s) == [k \in 1..Len(s) |-> IF s[k] = "e&amp;" THEN "e&" ELSE s[k]]

\* The characters of a line: the path "d/p" contains the path "p".
RECURSIVE Chars(_)
Chars(s) ==
    IF s = <<>> THEN <<>>
    ELSE (IF s[1] = "d/p" THEN <<"d", "/", "p">> ELSE <<s[1]>>)
         \o Chars(Tail(s))

\* `candidate in ln` on two Python strings.
InLine(candidate, ln) == Contains(Chars(ln), Chars(candidate))

_PLACEHOLDER_ALTS ==
    { <<"img">>, <<"image">>, <<"photo">>, <<"placeholder">>,
      <<"screenshot">>, <<"picture">> }

\* str.lower: "Image" and "Video" are the words of the model written
\* with an upper-case letter.
Lower(s) ==
    [k \in 1..Len(s) |-> IF s[k] = "Image" THEN "image"
                         ELSE IF s[k] = "Video" THEN "video" ELSE s[k]]

\* The test without the conversion to lower case.
_is_alt_meaningful_NoLower(alt) ==
    IF alt = None THEN FALSE
    ELSE Strip(alt[1]) # <<>> /\ Strip(alt[1]) \notin _PLACEHOLDER_ALTS

_is_alt_meaningful(alt) ==
    IF alt = None THEN FALSE
    ELSE /\ Lower(Strip(alt[1])) # <<>>
         /\ Lower(Strip(alt[1])) \notin _PLACEHOLDER_ALTS

_PLACEHOLDER_VIDEO_LABELS ==
    { <<"video">>, <<"movie">>, <<"clip">>, <<"media">>, <<"content">>,
      <<"placeholder">> }

_is_video_label_meaningful(label) ==
    IF label = None THEN FALSE
    ELSE /\ Lower(Strip(label[1])) # <<>>
         /\ Lower(Strip(label[1])) \notin _PLACEHOLDER_VIDEO_LABELS

\* The attribute names of the tags, each written with its "=".
LabelAttr == {"aria-label="}
AttrNames == SrcAttr \cup AltAttr \cup LabelAttr

\* str.split(sep) for a one-character separator.
RECURSIVE SplitOn(_, _)
SplitOn(s, sep) ==
    LET b == FirstIn(s, 1, {sep})
    IN IF b = 0 THEN <<s>>
       ELSE <<Slice(s, 1, b - 1)>> \o SplitOn(Slice(s, b + 1, Len(s)), sep)

\* markdown-it's open tag: after the tag name, attributes name="value"
\* each preceded by whitespace, optional whitespace, an optional "/", and
\* ">".  The index of that ">" for the attributes starting at i, or 0.
RECURSIVE AttrsEnd(_, _)
AttrsEnd(s, i) ==
    LET j == FirstNotIn(s, i, Whitespace)
    IN IF j = 0 THEN 0
       ELSE IF s[j] = ">" THEN j
       ELSE IF s[j] = "/"
       THEN IF j < Len(s) /\ s[j + 1] = ">" THEN j + 1 ELSE 0
       ELSE IF j > i /\ s[j] \in AttrNames
               /\ j < Len(s) /\ s[j + 1] = QUOTE
               /\ FirstIn(s, j + 2, {QUOTE}) # 0
       THEN AttrsEnd(s, FirstIn(s, j + 2, {QUOTE}) + 1)
       ELSE 0

\* The index of the ">" of the open tag with a name of names that starts
\* at i, or 0 when no well-formed tag starts there.
TagEnd(s, i, names) ==
    IF i >= 1 /\ i <= Len(s) /\ s[i] \in names THEN AttrsEnd(s, i + 1) ELSE 0

ImgTagEnd(s, i) == TagEnd(s, i, ImgOpen)

VideoTagEnd(s, i) == TagEnd(s, i, {"<video"})

\* The attributes of a well-formed tag, from index i on, as BeautifulSoup
\* reports them: names in lower case.
RECURSIVE TagAttrs(_, _)
TagAttrs(s, i) ==
    LET j == FirstNotIn(s, i, Whitespace)
    IN IF j = 0 \/ s[j] \in {">", "/"} THEN <<>>
       ELSE <<[name |-> IF s[j] \in SrcAttr THEN "src"
                        ELSE IF s[j] \in AltAttr THEN "alt"
                        ELSE "aria-label",
               value |-> Unescape(Slice(s, j + 2,
                                        FirstIn(s, j + 2, {QUOTE}) - 1))]>>
            \o TagAttrs(s, FirstIn(s, j + 2, {QUOTE}) + 1)

\* tag.get(name): the value of the last attribute of that name, or None.
AttrGet(attrs, name) ==
    LET ks == {k \in 1..Len(attrs) : attrs[k].name = name}
    IN IF ks = {} THEN None ELSE Some(attrs[Max(ks)].value)

\* soup.find_all("img") on content: the attributes of every <img> tag, in
\* document order.
RECURSIVE FindAllImg(_, _)
FindAllImg(content, i) ==
    IF i > Len(content) THEN <<>>
    ELSE IF ImgTagEnd(content, i) # 0
    THEN <<TagAttrs(content, i + 1)>>
         \o FindAllImg(content, ImgTagEnd(content, i) + 1)
    ELSE FindAllImg(content, i + 1)

\* _extract_html_img_info: the (src, alt) pairs of the tags with a src.
_extract_html_img_info(content) ==
    LET infos == [k \in 1..Len(FindAllImg(content, 1)) |->
                    [src |-> AttrGet(FindAllImg(content, 1)[k], "src"),
                     alt |-> AttrGet(FindAllImg(content, 1)[k], "alt")]]
    IN SelectSeq(infos, LAMBDA info : info.src \notin {None, Some(<<>>)})

\* The first <source> tag inside the <video> element whose open tag ends
\* at e: its attributes, or None.
FirstSource(content, e) ==
    LET close == Find(content, <<"</video>">>, e + 1)
        ks == {k \in (e + 1)..(IF close = 0 THEN Len(content) ELSE close) :
                  TagEnd(content, k, {"<source"}) # 0}
    IN IF ks = {} THEN None ELSE Some(TagAttrs(content, Min(ks) + 1))

\* soup.find_all("video") on content: for every <video> tag its
\* attributes and its first <source>, in document order.
RECURSIVE FindAllVideo(_, _)
FindAllVideo(content, i) ==
    IF i > Len(content) THEN <<>>
    ELSE IF VideoTagEnd(content, i) # 0
    THEN <<[attrs |-> TagAttrs(content, i + 1),
            source |-> FirstSource(content, VideoTagEnd(content, i))]>>
         \o FindAllVideo(content, VideoTagEnd(content, i) + 1)
    ELSE FindAllVideo(content, i + 1)

\* src_raw of one <video>: its src or, when that is missing or empty, the
\* src of its first <source>.
VideoSrc(video) ==
    IF AttrGet(video.attrs, "src") \notin {None, Some(<<>>)}
    THEN AttrGet(video.attrs, "src")
    ELSE IF video.source = None THEN None
    ELSE AttrGet(video.source[1], "src")

\* _extract_html_video_info: (src, aria_label) of the videos with a src;
\* the tags of the model carry neither title nor aria-describedby.
_extract_html_video_info(content) ==
    LET infos == [k \in 1..Len(FindAllVideo(content, 1)) |->
                    [src |-> VideoSrc(FindAllVideo(content, 1)[k]),
                     aria_label |->
                        IF AttrGet(FindAllVideo(content, 1)[k].attrs,
                                   "aria-label") = Some(<<>>)
                        THEN None
                        ELSE AttrGet(FindAllVideo(content, 1)[k].attrs,
                                     "aria-label")]]
    IN SelectSeq(infos, LAMBDA info : info.src \notin {None, Some(<<>>)})

\* markdown-it's parseLinkLabel: the index of the "]" that closes the
\* label whose text starts at j, or 0.
RECURSIVE LabelEnd(_, _, _)
LabelEnd(s, j, level) ==
    IF j > Len(s) THEN 0
    ELSE IF s[j] = "]"
    THEN IF level = 0 THEN j ELSE LabelEnd(s, j + 1, level - 1)
    ELSE IF s[j] = "[" THEN LabelEnd(s, j + 1, level + 1)
    ELSE LabelEnd(s, j + 1, level)

\* parseLinkDestination: the index after the destination that starts at
\* j (it ends at whitespace, a control character or the unbalanced ")").
RECURSIVE DestEnd(_, _, _)
DestEnd(s, j, level) ==
    IF j > Len(s) THEN j
    ELSE IF s[j] \in Whitespace THEN j
    ELSE IF s[j] = "(" THEN DestEnd(s, j + 1, level + 1)
    ELSE IF s[j] = ")"
    THEN IF level = 0 THEN j ELSE DestEnd(s, j + 1, level - 1)
    ELSE DestEnd(s, j + 1, level)

\* The inline image rule at index i: <<[src, content, end]>> for an image
\* ![label](destination) that starts at i (content is the label, end the
\* index of its ")"), or <<>>.
ImageAt(s, i) ==
    IF ~(i < Len(s) /\ s[i] = "!" /\ s[i + 1] = "[") THEN <<>>
    ELSE LET e == LabelEnd(s, i + 2, 0)
         IN IF e = 0 \/ e = Len(s) \/ s[e + 1] # "(" THEN <<>>
            ELSE LET a == FirstNotIn(s, e + 2, {" ", LF})
                 IN IF a = 0 THEN <<>>
                    ELSE LET b == DestEnd(s, a, 0)
                             c == FirstNotIn(s, b, {" ", LF})
                         IN IF c = 0 \/ s[c] # ")" THEN <<>>
                            ELSE <<[src |-> NormalizeLink(
                                               Unescape(Slice(s, a, b - 1))),
                                    content |-> Slice(s, i + 2, e - 1),
                                    end |-> c]>>

\* A token of md.parse, as far as the scanner reads it: map is None or
\* the number of the token's first line, counted from 0.
Token(type, content, map, src) ==
    [type |-> type, content |-> content, map |-> map, src |-> src]

\* The children of an inline token that are images or HTML fragments, in
\* document order.
RECURSIVE Children(_, _)
Children(s, i) ==
    IF i > Len(s) THEN <<>>
    ELSE IF ImageAt(s, i) # <<>>
    THEN <<Token("image", ImageAt(s, i)[1].content, None,
                 ImageAt(s, i)[1].src)>>
         \o Children(s, ImageAt(s, i)[1].end + 1)
    ELSE IF TagEnd(s, i, ImgOpen \cup {"<video"}) # 0
    THEN <<Token("html_inline",
                 Slice(s, i, TagEnd(s, i, ImgOpen \cup {"<video"})), None,
                 <<>>)>>
         \o Children(s, TagEnd(s, i, ImgOpen \cup {"<video"}) + 1)
    ELSE Children(s, i + 1)

\* A line on which the HTML block rule ends a block.
IsBlank(line) == \A k \in 1..Len(line) : line[k] = " "

\* A line that starts an HTML block and may interrupt a paragraph.
HtmlBlockTag(line) ==
    line # <<>> /\ line[1] \in {"<div>", "</div>", "<source"}

\* A line that starts an HTML block: a block tag, or one complete tag
\* followed by nothing but whitespace.
HtmlBlockStart(line) ==
    \/ HtmlBlockTag(line)
    \/ /\ TagEnd(line, 1, ImgOpen \cup {"<video"}) # 0
       /\ FirstNotIn(line, TagEnd(line, 1, ImgOpen \cup {"<video"}) + 1,
                     Whitespace) = 0
    \/ /\ line # <<>> /\ line[1] = "</video>"
       /\ FirstNotIn(line, 2, Whitespace) = 0

\* The last line of the block that starts at line i: an HTML block ends
\* before the next blank line, a paragraph also before a block tag.
BlockLast(ls, i, html) ==
    LET stops == {k \in (i + 1)..Len(ls) :
                     IsBlank(ls[k]) \/ (~html /\ HtmlBlockTag(ls[k]))}
    IN IF stops = {} THEN Len(ls) ELSE Min(stops) - 1

\* The block rules: the html_block and inline tokens of the lines from i
\* on, in document order.
RECURSIVE Blocks(_, _)
Blocks(ls, i) ==
    IF i > Len(ls) THEN <<>>
    ELSE IF IsBlank(ls[i]) THEN Blocks(ls, i + 1)
    ELSE IF HtmlBlockStart(ls[i])
    THEN <<Token("html_block",
                 JoinLines(Slice(ls, i, BlockLast(ls, i, TRUE))) \o <<LF>>,
                 Some(i - 1), <<>>)>>
         \o Blocks(ls, BlockLast(ls, i, TRUE) + 1)
    ELSE <<Token("inline",
                 Strip(JoinLines(Slice(ls, i, BlockLast(ls, i, FALSE)))),
                 Some(i - 1), <<>>)>>
         \o Blocks(ls, BlockLast(ls, i, FALSE) + 1)

\* md.parse(source_text)
Parse(source_text) == Blocks(SplitOn(source_text, LF), 1)

\* list.pop() takes the last element first.
Reversed(s) == [k \in 1..Len(s) |-> s[Len(s) + 1 - k]]

\* "<img" in content_lower
HasImg(content) == \E k \in 1..Len(content) : content[k] \in ImgOpen

\* "<video" in content_lower
HasVideo(content) == \E k \in 1..Len(content) : content[k] = "<video"

\* What _iter_media_tokens yields for one token of the stack: an HTML
\* block that holds a tag; an inline token once for its wikilink embeds
\* and once for its videos, and then its children, last child first.
MediaOf(token) ==
    IF token.type = "html_block"
    THEN IF HasImg(token.content) \/ HasVideo(token.content) THEN <<token>>
         ELSE <<>>
    ELSE (IF Contains(token.content, <<"!", "[", "[">>) THEN <<token>>
          ELSE <<>>)
         \o (IF HasVideo(token.content) THEN <<token>> ELSE <<>>)
         \o Reversed(Children(token.content, 1))

\* _iter_media_tokens: the stack is popped from its end.
RECURSIVE _iter_media_tokens(_)
_iter_media_tokens(tokens) ==
    IF tokens = <<>> THEN <<>>
    ELSE MediaOf(tokens[Len(tokens)])
         \o _iter_media_tokens(Slice(tokens, 1, Len(tokens) - 1))

\* The first line, counted from 1, that contains the first candidate found
\* in any line; 0 when no line contains a candidate (ValueError).
RECURSIVE FirstLineWith(_, _)
FirstLineWith(lines, candidates) ==
    IF candidates = <<>> THEN 0
    ELSE LET ks == {k \in 1..Len(lines) : InLine(candidates[1], lines[k])}
         IN IF ks # {} THEN Min(ks)
            ELSE FirstLineWith(lines, Tail(candidates))

\* The candidates of _get_line_number in the order they are tried.
Candidates(search_snippet) ==
    <<search_snippet, Unquote(search_snippet)>>
    \o (IF Len(search_snippet) >= 2 /\ search_snippet[1] = "("
           /\ search_snippet[Len(search_snippet)] = ")"
        THEN <<Slice(search_snippet, 2, Len(search_snippet) - 1),
               Unquote(Slice(search_snippet, 2, Len(search_snippet) - 1))>>
        ELSE <<>>)

\* The candidates tried line by line instead of candidate by candidate.
_get_line_number_LineMajor(token, lines, search_snippet) ==
    IF token.map # None THEN token.map[1] + 1
    ELSE LET ks == {k \in 1..Len(lines) :
                       \E c \in 1..Len(Candidates(search_snippet)) :
                          InLine(Candidates(search_snippet)[c], lines[k])}
         IN IF ks = {} THEN 0 ELSE Min(ks)

\* _get_line_number; 0 stands for the ValueError.
_get_line_number(token, lines, search_snippet) ==
    IF token.map # None THEN token.map[1] + 1
    ELSE FirstLineWith(lines, Candidates(search_snippet))

\* The asset_path string of a src.
PathOf(src) == IF Len(src) = 1 THEN src[1] ELSE "other"

\* The check of __post_init__ with 0 let through.
PostInitRaises_ZeroAllowed(line_number) ==
    line_number < 0

\* QueueItem.__post_init__ raises ValueError.
PostInitRaises(line_number) ==
    line_number <= 0

\* QueueItem without its context_snippet.
QueueItem(md_path, asset_path, line_number) ==
    [markdown_file |-> md_path, asset_path |-> asset_path,
     line_number |-> line_number]

_handle_md_asset(token, md_path, lines) ==
    IF token.src = <<>>
       \/ _is_alt_meaningful(IF token.content = <<>> THEN None
                             ELSE Some(token.content))
    THEN <<>>
    ELSE <<QueueItem(md_path, PathOf(Unquote(token.src)),
               _get_line_number(token, lines,
                                <<"(">> \o token.src \o <<")">>))>>

\* The record _handle_html_asset makes for one (src, alt) pair, if any.
HtmlAssetItem(info, token, md_path, lines) ==
    IF (info.alt # None /\ Strip(info.alt[1]) = <<>>)
       \/ _is_alt_meaningful(info.alt)
    THEN <<>>
    ELSE <<QueueItem(md_path, PathOf(info.src[1]),
                     _get_line_number(token, lines, info.src[1]))>>

RECURSIVE HtmlAssetItems(_, _, _, _)
HtmlAssetItems(infos, token, md_path, lines) ==
    IF infos = <<>> THEN <<>>
    ELSE HtmlAssetItem(infos[1], token, md_path, lines)
         \o HtmlAssetItems(Tail(infos), token, md_path, lines)

_handle_html_asset(token, md_path, lines) ==
    HtmlAssetItems(_extract_html_img_info(token.content), token, md_path,
                   lines)

\* The record _handle_html_video makes for one video, if any.
HtmlVideoItem(info, token, md_path, lines) ==
    IF _is_video_label_meaningful(info.aria_label) THEN <<>>
    ELSE <<QueueItem(md_path, PathOf(info.src[1]),
                     _get_line_number(token, lines, info.src[1]))>>

RECURSIVE HtmlVideoItems(_, _, _, _)
HtmlVideoItems(infos, token, md_path, lines) ==
    IF infos = <<>> THEN <<>>
    ELSE HtmlVideoItem(infos[1], token, md_path, lines)
         \o HtmlVideoItems(Tail(infos), token, md_path, lines)

_handle_html_video(token, md_path, lines) ==
    HtmlVideoItems(_extract_html_video_info(token.content), token, md_path,
                   lines)

\* The (src, alt) pair of the text between "![[" and "]]".
WikilinkInfo(inner) ==
    LET bar == FirstIn(inner, 1, {"|"})
    IN IF bar = 0 THEN [src |-> Strip(inner), alt |-> None]
       ELSE [src |-> Strip(Slice(inner, 1, bar - 1)),
             alt |-> IF Strip(Slice(inner, bar + 1, Len(inner))) = <<>>
                     THEN None
                     ELSE Some(Strip(Slice(inner, bar + 1, Len(inner))))]

\* _iter_wikilink_images from index idx on.
RECURSIVE _iter_wikilink_images(_, _)
_iter_wikilink_images(content, idx) ==
    LET start == Find(content, <<"!", "[", "[">>, idx)
        end == IF start = 0 THEN 0
               ELSE Find(content, <<"]", "]">>, start + 3)
    IN IF start = 0 \/ end = 0 THEN <<>>
       ELSE (IF WikilinkInfo(Slice(content, start + 3, end - 1)).src = <<>>
             THEN <<>>
             ELSE <<WikilinkInfo(Slice(content, start + 3, end - 1))>>)
            \o _iter_wikilink_images(content, end + 2)

\* src ends with an extension of WIKILINK_ASSET_EXTENSIONS.
HasAssetExt(src) == src[Len(src)] \in AssetPaths

RECURSIVE WikilinkItems(_, _, _, _)
WikilinkItems(infos, token, md_path, lines) ==
    IF infos = <<>> THEN <<>>
    ELSE (IF ~HasAssetExt(infos[1].src) \/ _is_alt_meaningful(infos[1].alt)
          THEN <<>>
          ELSE <<QueueItem(md_path, PathOf(infos[1].src),
                     _get_line_number(token, lines,
                         <<"!", "[", "[">> \o infos[1].src))>>)
         \o WikilinkItems(Tail(infos), token, md_path, lines)

_handle_wikilink_asset(token, md_path, lines) ==
    WikilinkItems(_iter_wikilink_images(token.content, 1), token, md_path,
                  lines)

\* The video records an inline token adds.
InlineVideoItems(token, md_path, lines) ==
    IF FindAllVideo(token.content, 1) # <<>>
    THEN _handle_html_video(token, md_path, lines) ELSE <<>>

\* The state of the loop of _process_file after an inline token that
\* added video_items.
AfterInline(st, video_items, wikilink_items) ==
    [items |-> st.items \o video_items \o wikilink_items,
     processed_video_assets |->
        st.processed_video_assets
        \cup {video_items[k].asset_path : k \in 1..Len(video_items)}]

\* The records an html_inline or html_block token adds: those of its
\* <img> tags when it has one, otherwise those of its <video> tags that
\* no inline token has recorded.
HtmlItems(st, token, md_path, lines) ==
    IF FindAllImg(token.content, 1) # <<>>
    THEN _handle_html_asset(token, md_path, lines)
    ELSE IF FindAllVideo(token.content, 1) # <<>>
    THEN SelectSeq(_handle_html_video(token, md_path, lines),
                   LAMBDA it : it.asset_path \notin st.processed_video_assets)
    ELSE <<>>

\* The body of the loop of _process_file for one token.
TokenStep(st, token, md_path, lines) ==
    IF token.type = "image"
    THEN [st EXCEPT !.items = @ \o _handle_md_asset(token, md_path, lines)]
    ELSE IF token.type \in {"html_inline", "html_block"}
    THEN [st EXCEPT !.items = @ \o HtmlItems(st, token, md_path, lines)]
    ELSE AfterInline(st, InlineVideoItems(token, md_path, lines),
                     _handle_wikilink_asset(token, md_path, lines))

RECURSIVE ItemsOfTokens(_, _, _, _)
ItemsOfTokens(st, tokens, md_path, lines) ==
    IF tokens = <<>> THEN st.items
    ELSE ItemsOfTokens(TokenStep(st, tokens[1], md_path, lines),
                       Tail(tokens), md_path, lines)

\* _process_file on the text read from md_path.
ProcessText(md_path, source_text) ==
    ItemsOfTokens([items |-> <<>>, processed_video_assets |-> {}],
                  _iter_media_tokens(Parse(source_text)), md_path,
                  SplitLines(source_text))

_process_file(md_path, bytes) == ProcessText(md_path, ReadText(bytes))

\* utils.get_files: the markdown files that exist, in name order.
get_files(files) ==
    (IF files["f1"] # None THEN <<"f1">> ELSE <<>>)
    \o (IF files["f2"] # None THEN <<"f2">> ELSE <<>>)

RECURSIVE QueueOf(_, _)
QueueOf(md_files, files) ==
    IF md_files = <<>> THEN <<>>
    ELSE _process_file(md_files[1], files[md_files[1]][1])
         \o QueueOf(Tail(md_files), files)

\* build_queue: the records of every file; a record with line_number 0
\* stands for the ValueError of _get_line_number.
build_queue(files) == QueueOf(get_files(files), files)

\* ---------------------------------------------------------------------
\* State
\* ---------------------------------------------------------------------

VARIABLES
    disk,           \* file name -> None (no such file) or Some(bytes)
    orig,           \* the disk when the run started
    captions_data,  \* the entries of the captions JSON file
    dry_run,        \* the dry_run argument
    pc,             \* position in apply_captions
    by_file,        \* usable records grouped by file
    file_idx,       \* index in by_file of the file being processed
    items_sorted,   \* the records of that file, sorted
    item_idx,       \* index in items_sorted of the next record
    applied_count,  \* the count apply_captions returns
    log,            \* one entry per call of _apply_caption_to_file
    skip_list,      \* the lines _display_unused_entries printed
    queue,          \* None, or Some(what build_queue returned)
    requeue,        \* None, or Some(what the second build_queue returned)
    resolved,       \* None, or Some(one call of _get_line_number)
    probe,          \* None, or Some(one call of a recognizer)
    made            \* None, or Some(one construction of a QueueItem)

vars == <<disk, orig, captions_data, dry_run, pc, by_file, file_idx,
          items_sorted, item_idx, applied_count, log, skip_list, queue,
          requeue, resolved, probe, made>>

scan_vars == <<queue, requeue, resolved, probe, made>>

\* <video src="v"></video> and the same with a meaningful label.
VideoV == <<"<video", " ", "src=", QUOTE, "v", QUOTE, ">", "</video>">>
VideoVLabelled ==
    <<"<video", " ", "aria-label=", QUOTE, "x", QUOTE, " ", "src=", QUOTE,
      "v", QUOTE, ">", "</video>">>

\* Documents with videos: one in a paragraph, one next to a wikilink
\* embed, one next to an <img> in an HTML block, one that is an HTML block
\* of its own with its <source> on the second line, a labelled one, and
\* the same video as an HTML block and in a later paragraph.
VideoDocs ==
    { <<"a", " ">> \o VideoV \o <<LF>>,
      WikiQ \o <<" ">> \o VideoV \o <<LF>>,
      <<"<div>">> \o ImgP \o VideoV \o <<"</div>", LF>>,
      <<"<video", ">", LF, "<source", " ", "src=", QUOTE, "v", QUOTE, ">",
        LF, "</video>", LF>>,
      <<"a", " ">> \o VideoVLabelled \o <<LF>>,
      <<"<video", " ", "src=", QUOTE, "v", QUOTE, ">", LF, "</video>", LF,
        LF, "a", " ">> \o VideoV \o <<LF>> }

\* Documents whose paths need decoding: a non-ASCII name, the same name
\* written percent-encoded after a labelled image of the decoded name,
\* an <img> of a path before the image of the same path, and a name
\* written with a character reference.
EncodedDocs ==
    { <<"!", "[", "]", "(", "u", ")", LF>>,
      <<"!", "[", "x", "]", "(", "u", ")", LF, LF,
        "!", "[", "]", "(", "%u", ")", LF>>,
      <<"<img", " ", "alt=", QUOTE, "x", QUOTE, " ", "src=", QUOTE, "p",
        QUOTE, ">", LF, LF>> \o MdP \o <<LF>>,
      <<"!", "[", "]", "(", "e&amp;", ")", LF>> }

\* Documents whose alt texts are placeholders written with an upper-case
\* letter or with spaces around them, or blank, next to a meaningful one.
PlaceholderDocs ==
    { <<"!", "[", "Image", "]", "(", "p", ")", " ", "!", "[", "x", "]",
        "(", "q", ")", LF>>,
      <<"a", " ", "<img", " ", "alt=", QUOTE, " ", "Image", " ", QUOTE, " ",
        "src=", QUOTE, "p", QUOTE, ">", " ", "<img", " ", "alt=", QUOTE,
        " ", QUOTE, " ", "src=", QUOTE, "q", QUOTE, ">", LF>>,
      <<"!", "[", "[", "q", "|", " ", "Image", " ", "]", "]", " ", "!", "[",
        "[", "p", "|", "x", "]", "]", LF>> }

\* Documents for the scanner: an <img> inside a multi-line HTML block, a
\* wikilink embed on the second line of a paragraph, one asset in two
\* paragraphs, an image with a placeholder alt, a decorative <img>, an
\* image without alt after a labelled image of the same path.
ScanDocs ==
    VideoDocs \cup EncodedDocs \cup PlaceholderDocs \cup
    { <<"!", "[", "x", "]", "(", "p", ")", LF, LF>> \o MdP \o <<LF>> } \cup
    { <<"<div>", LF>> \o ImgP \o <<LF, "</div>", LF>>,
      <<"a", LF>> \o WikiQ \o <<LF>>,
      MdP \o <<LF, LF>> \o MdP \o <<LF>>,
      <<"!", "[", "image", "]", "(", "p", ")", LF, LF>> \o ImgP \o <<LF>>,
      <<"<img", " ", "alt=", QUOTE, QUOTE, " ", "src=", QUOTE, "p", QUOTE,
        ">", LF>> }

\* The disks a run starts from: every document as f1 without a second
\* file, and two of them next to an existing f2.
Disks ==
    {[f \in Files |-> IF f = "f1" THEN Some(d) ELSE None] : d \in Docs}
    \cup {[f \in Files |-> IF f = "f1" THEN Some(d) ELSE Some(MdP \o <<LF>>)] :
             d \in {MdP \o <<LF>>,
                    <<"a", LF>> \o MdP \o <<LF>> \o MdQ \o <<LF>>}}

\* The disks a scan starts from.
ScanDisks ==
    Disks
    \cup {[f \in Files |-> IF f = "f1" THEN Some(d) ELSE None] : d \in ScanDocs}

\* Either a captions file is at hand and the patcher starts, or there is
\* none yet and the scanner starts.
Init ==
    /\ \/ /\ pc = "start"
          /\ disk \in Disks
          /\ captions_data \in CaptionLists
          /\ dry_run \in BOOLEAN
       \/ /\ pc = "scan"
          /\ disk \in ScanDisks
          /\ captions_data = <<>>
          /\ dry_run = FALSE
       \/ /\ pc = "call"
          /\ disk = [f \in Files |-> None]
          /\ captions_data = <<>>
          /\ dry_run = FALSE
    /\ orig = disk
    /\ skip_list = <<>>
    /\ queue = None
    /\ requeue = None
    /\ resolved = None
    /\ probe = None
    /\ made = None
    /\ by_file = <<>>
    /\ file_idx = 1
    /\ items_sorted = <<>>
    /\ item_idx = 1
    /\ applied_count = 0
    /\ log = <<>>

\* One call of _apply_caption_to_file and what it did.
LogEntry(md_file, item, before, out) ==
    [md_file |-> md_file, item |-> item, before |-> before,
     after |-> out.content, wrote |-> out.wrote, result |-> out.result,
     raised |-> out.raised]

\* apply_captions up to the loop over the files: load the entries, keep
\* the usable ones, report the others, group the usable ones by file.
LoadCaptions ==
    /\ pc = "start"
    /\ IF LoadRaises(captions_data)
       THEN /\ pc' = "raised"
            /\ UNCHANGED <<by_file, skip_list>>
       ELSE /\ skip_list' = SortedEntries(UnusedEntries(captions_data))
            /\ IF SelectUsable(captions_data) = <<>>
               THEN /\ pc' = "done"
                    /\ UNCHANGED by_file
               ELSE /\ pc' = "files"
                    /\ by_file' = GroupByFile(SelectUsable(captions_data),
                                              <<>>)
    /\ UNCHANGED <<disk, orig, captions_data, dry_run, file_idx,
                   items_sorted, item_idx, applied_count, log>>
    /\ UNCHANGED scan_vars

\* The head of the loop over by_file without the test that the file
\* exists: reading a missing file raises FileNotFoundError.
ProcessFile_NoExistsCheck ==
    /\ pc = "files"
    /\ file_idx <= Len(by_file)
    /\ IF disk[by_file[file_idx].md_file] = None
       THEN /\ pc' = "raised"
            /\ UNCHANGED <<file_idx, items_sorted, item_idx>>
       ELSE /\ items_sorted' = SortedDescending(by_file[file_idx].items)
            /\ item_idx' = 1
            /\ pc' = "items"
            /\ UNCHANGED file_idx
    /\ UNCHANGED <<disk, orig, captions_data, dry_run, by_file,
                   applied_count, log>>
    /\ UNCHANGED scan_vars
    /\ UNCHANGED skip_list

\* The head of the loop over by_file: skip a missing file, otherwise sort
\* the file's records.
ProcessFile ==
    /\ pc = "files"
    /\ file_idx <= Len(by_file)
    /\ IF disk[by_file[file_idx].md_file] = None
       THEN /\ file_idx' = file_idx + 1
            /\ UNCHANGED <<pc, items_sorted, item_idx>>
       ELSE /\ items_sorted' = SortedDescending(by_file[file_idx].items)
            /\ item_idx' = 1
            /\ pc' = "items"
            /\ UNCHANGED file_idx
    /\ UNCHANGED <<disk, orig, captions_data, dry_run, by_file,
                   applied_count, log>>
    /\ UNCHANGED scan_vars
    /\ UNCHANGED skip_list

\* One iteration of the loop over items_sorted, out being what the call
\* of _apply_caption_to_file did.
ApplyItemWith(md_file, item, out) ==
    /\ disk' = [disk EXCEPT ![md_file] = Some(out.content)]
    /\ log' = Append(log, LogEntry(md_file, item, disk[md_file][1], out))
    /\ applied_count' = IF out.result # None THEN applied_count + 1
                        ELSE applied_count
    /\ IF out.raised
       THEN /\ pc' = "raised"
            /\ UNCHANGED <<file_idx, item_idx>>
       ELSE IF item_idx = Len(items_sorted)
       THEN /\ pc' = "files"
            /\ file_idx' = file_idx + 1
            /\ item_idx' = item_idx + 1
       ELSE /\ pc' = "items"
            /\ item_idx' = item_idx + 1
            /\ UNCHANGED file_idx

\* One iteration of the loop over items_sorted.
ApplyItem ==
    /\ pc = "items"
    /\ item_idx <= Len(items_sorted)
    /\ ApplyItemWith(by_file[file_idx].md_file, items_sorted[item_idx],
                     _apply_caption_to_file(
                         disk[by_file[file_idx].md_file][1],
                         items_sorted[item_idx], dry_run))
    /\ UNCHANGED <<orig, captions_data, dry_run, by_file, items_sorted>>
    /\ UNCHANGED scan_vars
    /\ UNCHANGED skip_list

\* return applied_count
Return ==
    /\ pc = "files"
    /\ file_idx > Len(by_file)
    /\ pc' = "done"
    /\ UNCHANGED <<disk, orig, captions_data, dry_run, by_file, file_idx,
                   items_sorted, item_idx, applied_count, log>>
    /\ UNCHANGED scan_vars
    /\ UNCHANGED skip_list

\* The effect of a direct call that did out.
DirectCallWith(item, out) ==
    /\ disk' = [disk EXCEPT ![item.markdown_file] = Some(out.content)]
    /\ log' = Append(log, LogEntry(item.markdown_file, item,
                                   disk[item.markdown_file][1], out))
    /\ pc' = IF out.raised THEN "raised" ELSE "returned"

\* A direct call of _apply_caption_to_file on an existing file with one
\* record that has a final_alt, as a caller other than apply_captions
\* makes it.
CallApplyCaptionToFile ==
    /\ pc = "start"
    /\ \E i \in 1..Len(captions_data) :
          /\ captions_data[i].final_alt # None
          /\ disk[captions_data[i].markdown_file] # None
          /\ DirectCallWith(captions_data[i],
                 _apply_caption_to_file(
                     disk[captions_data[i].markdown_file][1],
                     captions_data[i], dry_run))
    /\ UNCHANGED <<orig, captions_data, dry_run, by_file, file_idx,
                   items_sorted, item_idx, applied_count>>
    /\ UNCHANGED scan_vars
    /\ UNCHANGED skip_list

\* The texts given as final_alt in the round trip.
ReviewAlts == {<<"x">>, <<"y">>}

\* A ValueError leaves build_queue: that of _get_line_number, which the
\* line number 0 stands for, or that of QueueItem.
Raises(items) ==
    \E k \in 1..Len(items) : PostInitRaises(items[k].line_number)

\* scan.build_queue(root) on the files as they are.
BuildQueue ==
    /\ pc = "scan"
    /\ IF Raises(build_queue(disk))
       THEN /\ pc' = "raised"
            /\ UNCHANGED queue
       ELSE /\ pc' = "queued"
            /\ queue' = Some(build_queue(disk))
    /\ UNCHANGED <<disk, orig, captions_data, dry_run, by_file, file_idx,
                   items_sorted, item_idx, applied_count, log, requeue>>
    /\ UNCHANGED <<skip_list, resolved, probe, made>>

\* The lines read from a file holding bytes.
LinesOf(bytes) == SplitLines(ReadText(bytes))

\* The tokens _get_line_number is called with: a line mapping or none.
TokenMaps == {None, Some(0), Some(2)}

\* The search keys it is called with.
SearchSnippets ==
    { <<"(", "p", ")">>, <<"(", "%u", ")">>, <<"(", "e&", ")">>, <<"p">>,
      <<"v">>, <<"!", "[", "[", "q">> }

\* What one call of _get_line_number did.
Resolution(md_file, map, search_snippet, line_no) ==
    [md_file |-> md_file, map |-> map, search_snippet |-> search_snippet,
     line_no |-> line_no, raised |-> line_no = 0]

\* A direct call of _get_line_number with the lines of an existing file.
CallGetLineNumber ==
    /\ pc = "scan"
    /\ \E f \in Files, map \in TokenMaps, search_snippet \in SearchSnippets :
          /\ disk[f] # None
          /\ resolved' =
                Some(Resolution(f, map, search_snippet,
                        _get_line_number(Token("image", <<>>, map, <<>>),
                                         LinesOf(disk[f][1]),
                                         search_snippet)))
    /\ pc' = "resolved"
    /\ UNCHANGED <<disk, orig, captions_data, dry_run, by_file, file_idx,
                   items_sorted, item_idx, applied_count, log, queue,
                   requeue, skip_list, probe, made>>

\* The lines the recognizers are called with: markdown images of p with
\* and without alt, with a space before ")", twice on a line; wikilink
\* embeds likewise; <img> tags without alt, self-closing with alt, in
\* upper case, with two spaces after the name, unclosed, twice on a
\* line; the three syntaxes on one line; constructs of q only; a video.
ProbeLines ==
    { <<"a", " ">> \o MdPOld \o <<" ", "b">>,
      <<"!", "[", "]", "(", "p", " ", ")">>,
      MdP \o <<" ">> \o <<"!", "[", "y", "]", "(", "p", ")">>,
      MdQ \o <<" ">> \o WikiQ,
      <<"a", " ">> \o <<"!", "[", "[", "p", "|", "y", "]", "]">> \o <<" ", "b">>,
      WikiP \o <<" ">> \o WikiP,
      ImgP,
      <<"a", " ", "<img", " ", "alt=", QUOTE, "y", QUOTE, " ", "src=", QUOTE,
        "p", QUOTE, "/", ">", " ", "b">>,
      <<"<IMG", " ", "SRC=", QUOTE, "p", QUOTE, " ", "ALT=", QUOTE, "y",
        QUOTE, ">">>,
      <<"<img", " ", " ", "src=", QUOTE, "p", QUOTE, ">">>,
      <<"<img", " ", "src=", QUOTE, "p", QUOTE>>,
      <<"<img", " ", "alt=", QUOTE, "y", QUOTE, " ", "src=", QUOTE, "p",
        QUOTE, ">", " ">> \o ImgP,
      MdP \o <<" ">> \o WikiP \o <<" ">> \o ImgP,
      VideoV }

\* The asset paths and the new texts the recognizers are called with.
ProbePaths == {"p", "q", "v"}
ProbeAlts == {<<"x">>, <<"y">>}

\* One call of a recognizer and what it returned.
Probe(fn, line, asset_path, new_alt, out) ==
    [fn |-> fn, line |-> line, asset_path |-> asset_path,
     new_alt |-> new_alt, new_line |-> out[1], old_alt |-> out[2]]

\* A direct call of _apply_markdown_image_alt.
CallApplyMarkdownImageAlt ==
    /\ pc = "call"
    /\ \E line \in ProbeLines, asset_path \in ProbePaths,
          new_alt \in ProbeAlts :
          probe' = Some(Probe("markdown", line, asset_path, new_alt,
                      _apply_markdown_image_alt(line, asset_path, new_alt)))
    /\ pc' = "returned"
    /\ UNCHANGED <<disk, orig, captions_data, dry_run, by_file, file_idx,
                   items_sorted, item_idx, applied_count, log, queue,
                   requeue, skip_list, resolved, made>>

\* A direct call of _apply_wikilink_image_alt.
CallApplyWikilinkImageAlt ==
    /\ pc = "call"
    /\ \E line \in ProbeLines, asset_path \in ProbePaths,
          new_alt \in ProbeAlts :
          probe' = Some(Probe("wikilink", line, asset_path, new_alt,
                      _apply_wikilink_image_alt(line, asset_path, new_alt)))
    /\ pc' = "returned"
    /\ UNCHANGED <<disk, orig, captions_data, dry_run, by_file, file_idx,
                   items_sorted, item_idx, applied_count, log, queue,
                   requeue, skip_list, resolved, made>>

\* A direct call of _apply_html_image_alt.
CallApplyHtmlImageAlt ==
    /\ pc = "call"
    /\ \E line \in ProbeLines, asset_path \in ProbePaths,
          new_alt \in ProbeAlts :
          probe' = Some(Probe("html", line, asset_path, new_alt,
                      _apply_html_image_alt(line, asset_path, new_alt)))
    /\ pc' = "returned"
    /\ UNCHANGED <<disk, orig, captions_data, dry_run, by_file, file_idx,
                   items_sorted, item_idx, applied_count, log, queue,
                   requeue, skip_list, resolved, made>>

\* The line numbers a QueueItem is constructed with.
LineNumbers == (0 - 2)..3

\* One construction of a QueueItem: the record, or the ValueError.
Construction(line_number, raised) ==
    [line_number |-> line_number, raised |-> raised,
     item |-> IF raised THEN None
              ELSE Some(QueueItem("f1", "p", line_number))]

\* A direct construction of a QueueItem.
CallQueueItem ==
    /\ pc = "call"
    /\ \E line_number \in LineNumbers :
          made' = Some(Construction(line_number,
                                    PostInitRaises(line_number)))
    /\ pc' = "returned"
    /\ UNCHANGED <<disk, orig, captions_data, dry_run, by_file, file_idx,
                   items_sorted, item_idx, applied_count, log, queue,
                   requeue, skip_list, resolved, probe>>

\* The captions file made from the queue: every record keeps the
\* markdown_file, asset_path and line_number it was emitted with and gets
\* a non-blank final_alt.
Review ==
    /\ pc = "queued"
    /\ \E alt \in ReviewAlts :
          captions_data' =
             [k \in 1..Len(queue[1]) |->
                Caption(queue[1][k].markdown_file, queue[1][k].asset_path,
                        Some(queue[1][k].line_number), Some(alt))]
    /\ pc' = "start"
    /\ UNCHANGED <<disk, orig, dry_run, by_file, file_idx, items_sorted,
                   item_idx, applied_count, log, queue, requeue>>
    /\ UNCHANGED <<skip_list, resolved, probe, made>>

\* The second scan.build_queue(root), after apply_captions returned.
Rescan ==
    /\ pc = "done"
    /\ queue # None
    /\ requeue' = Some(build_queue(disk))
    /\ pc' = "rescanned"
    /\ UNCHANGED <<disk, orig, captions_data, dry_run, by_file, file_idx,
                   items_sorted, item_idx, applied_count, log, queue>>
    /\ UNCHANGED <<skip_list, resolved, probe, made>>

Next ==
    \/ BuildQueue
    \/ CallGetLineNumber
    \/ CallApplyMarkdownImageAlt
    \/ CallApplyWikilinkImageAlt
    \/ CallApplyHtmlImageAlt
    \/ CallQueueItem
    \/ Review
    \/ Rescan
    \/ LoadCaptions
    \/ ProcessFile
    \/ ApplyItem
    \/ Return
    \/ CallApplyCaptionToFile

Spec == Init /\ [][Next]_vars

\* ---------------------------------------------------------------------
\* Properties
\* ---------------------------------------------------------------------

\* The first m elements of s (all of s when it is shorter).
Prefix(s, m) == Slice(s, 1, IF m < Len(s) THEN m ELSE Len(s))

\* The entries of log written by apply_captions (a direct call ends in
\* "returned" or "raised" with a single entry).
InRun == pc \in {"files", "items", "done", "rescanned"}

\* Entry e is a call whose line_number is an integer outside 1..len(lines).
OutOfRangeEntry(e) ==
    /\ e.item.line_number # None
    /\ \/ e.item.line_number[1] < 1
       \/ e.item.line_number[1] > Len(LinesOf(e.before))

\* The number of usable records whose file exists when the run starts.
RecordsOnExistingFiles ==
    Cardinality({i \in 1..Len(captions_data) :
                    /\ Usable(captions_data[i])
                    /\ orig[captions_data[i].markdown_file] # None})

\* C10: a record whose line_number is below 1 or above the file's number
\* of lines makes _apply_caption_to_file return None without writing and
\* without raising, and apply_captions still processes every other record:
\* when it returns, each usable record of an existing file has had its call.
C10_OutOfRangeFailsLocally ==
    /\ \A k \in 1..Len(log) :
          OutOfRangeEntry(log[k]) =>
             /\ log[k].result = None
             /\ ~log[k].wrote
             /\ ~log[k].raised
             /\ log[k].after = log[k].before
    /\ (\E k \in 1..Len(log) : OutOfRangeEntry(log[k])) => pc # "raised"
    /\ pc = "done" /\ ~LoadRaises(captions_data)
          => Len(log) = RecordsOnExistingFiles

\* C10 witness: a run that met an out-of-range record and afterwards
\* applied another record.
C10_Witness ==
    /\ pc = "done"
    /\ \E i, j \in 1..Len(log) :
          /\ i < j
          /\ OutOfRangeEntry(log[i])
          /\ log[j].result # None
          /\ log[j].wrote
    /\ \E i \in 1..Len(log) :
          OutOfRangeEntry(log[i]) /\ log[i].item.line_number[1] < 1

\* C3: within apply_captions the records of a file are applied in
\* non-increasing line_number order: when the record with line n is applied,
\* every record of that file applied before it has a line number >= n, and
\* lines 1..n-1 of the file are the lines 1..n-1 of the original file.
C3_DescendingOrder ==
    InRun =>
      \A k \in 1..Len(log) :
         LET e == log[k]
             n == e.item.line_number[1]
         IN /\ \A j \in 1..(k - 1) :
                  log[j].md_file = e.md_file
                     => log[j].item.line_number[1] >= n
            /\ Prefix(LinesOf(e.before), n - 1)
                 = Prefix(LinesOf(orig[e.md_file][1]), n - 1)

\* C3 witness: a record is applied to a line above one that an earlier
\* record of the run has already rewritten on disk.
C3_Witness ==
    /\ InRun
    /\ \E i, j \in 1..Len(log) :
          /\ i < j
          /\ log[i].md_file = log[j].md_file
          /\ log[i].wrote /\ log[j].wrote
          /\ log[j].item.line_number[1] < log[i].item.line_number[1]
          /\ log[j].item.line_number[1] > 1

\* The permutations of 1..n.
PermMaps(n) ==
    {f \in [1..n -> 1..n] : \A i, j \in 1..n : i # j => f[i] # f[j]}

\* The list s in the order f.
Permuted(s, f) == [i \in 1..Len(s) |-> s[f[i]]]

\* The order f leaves the usable records of one file that have the same
\* line_number in the relative order they have in s.
KeepsTies(s, f) ==
    \A i, j \in 1..Len(s) :
       /\ i < j
       /\ Usable(s[f[i]]) /\ Usable(s[f[j]])
       /\ s[f[i]].markdown_file = s[f[j]].markdown_file
       /\ s[f[i]].line_number = s[f[j]].line_number
       => f[i] < f[j]

\* C2 as claimed: after apply_captions the content of every file is the
\* content that any permutation of the captions list produces, also when
\* two records carry the same line_number.
C2_OrderIndependent ==
    pc = "done" =>
      \A md \in Files :
         orig[md] # None =>
            \A f \in PermMaps(Len(captions_data)) :
               FinalContent(orig[md][1], Permuted(captions_data, f), md,
                            dry_run) = disk[md][1]

\* C2 amended: after apply_captions the content of every file is the
\* content produced by any permutation of the captions list that keeps the
\* records of one file with equal line_number in their relative order.
C2_OrderIndependentUpToTies ==
    pc = "done" =>
      \A md \in Files :
         orig[md] # None =>
            \A f \in PermMaps(Len(captions_data)) :
               KeepsTies(captions_data, f) =>
                  FinalContent(orig[md][1], Permuted(captions_data, f), md,
                               dry_run) = disk[md][1]

\* C2 witness: a finished run that rewrote a file for two records given
\* in ascending line order, so that sorting reordered them.
C2_Witness ==
    /\ pc = "done"
    /\ Len(captions_data) >= 2
    /\ captions_data[1].markdown_file = captions_data[2].markdown_file
    /\ Usable(captions_data[1]) /\ Usable(captions_data[2])
    /\ captions_data[1].line_number[1] < captions_data[2].line_number[1]
    /\ \E i, j \in 1..Len(log) :
          /\ log[i].item = captions_data[2] /\ log[i].wrote
          /\ log[j].item = captions_data[1] /\ log[j].wrote

\* The calls of log for file md, in order.
CallsOn(md) == SelectSeq(log, LAMBDA e : e.md_file = md)

Recognized(line, asset_path) ==
    \E i \in 1..Len(line) :
       \/ MarkdownMatchAt(line, asset_path, i) # <<>>
       \/ WikilinkMatchAt(line, asset_path, i) # <<>>
       \/ ImgMatchAt(line, asset_path, i) # <<>>

\* Entry e is a call whose asset occurs in no recognized construct on the
\* target line or, without a line number, anywhere in the file.
NoMatchEntry(e) ==
    /\ e.item.final_alt # None
    /\ IF e.item.line_number = None
       THEN \A k \in 1..Len(LinesOf(e.before)) :
               ~Recognized(LinesOf(e.before)[k], e.item.asset_path)
       ELSE /\ ~OutOfRangeEntry(e)
            /\ ~Recognized(LinesOf(e.before)[e.item.line_number[1]],
                           e.item.asset_path)

\* C4: when the asset occurs in no recognized construct on the target line
\* (without a line number: anywhere in the file), _apply_caption_to_file
\* returns None without raising and leaves the file as it was.
C4_NoMatchLeavesFileUntouched ==
    \A k \in 1..Len(log) :
       NoMatchEntry(log[k]) =>
          /\ log[k].result = None
          /\ ~log[k].raised
          /\ log[k].after = log[k].before

\* bytes.splitlines(keepends=True): the lines of a file with their
\* terminators.
RECURSIVE KeepEnds(_)
KeepEnds(bytes) ==
    IF bytes = <<>> THEN <<>>
    ELSE LET b == FirstIn(bytes, 1, LineBoundaries)
         IN IF b = 0 THEN <<bytes>>
            ELSE LET n == IF bytes[b] = CR /\ b < Len(bytes)
                             /\ bytes[b + 1] = LF
                          THEN b + 1 ELSE b
                 IN <<Slice(bytes, 1, n)>>
                    \o KeepEnds(Slice(bytes, n + 1, Len(bytes)))

\* C5: after a successful single-line patch that is not a dry run the file
\* has as many lines as before, and every line but the target line is,
\* with its terminator, what it was.
C5_MinimalEdit ==
    \A k \in 1..Len(log) :
       log[k].wrote /\ log[k].item.line_number # None =>
          /\ Len(KeepEnds(log[k].after)) = Len(KeepEnds(log[k].before))
          /\ \A i \in 1..Len(KeepEnds(log[k].before)) :
                i # log[k].item.line_number[1]
                   => KeepEnds(log[k].after)[i] = KeepEnds(log[k].before)[i]

\* C6: a written file ends with a newline exactly when the file ended with
\* one before the patch.
C6_TrailingNewlinePreserved ==
    \A k \in 1..Len(log) :
       log[k].wrote =>
          (EndsWithNewline(log[k].after) <=> EndsWithNewline(log[k].before))

\* The constructs of a line: for every asset path, how many markdown
\* images, wikilink embeds and <img> tags of that path the line holds.
ConstructsOf(line) ==
    [a \in AssetPaths |->
       << Cardinality({i \in 1..Len(line) :
                          MarkdownMatchAt(line, a, i) # <<>>}),
          Cardinality({i \in 1..Len(line) :
                          WikilinkMatchAt(line, a, i) # <<>>}),
          Cardinality({i \in 1..Len(line) :
                          ImgMatchAt(line, a, i) # <<>>}) >>]

\* C8: whatever the replacement text, after a successful patch the file
\* has the same number of lines and the target line holds the same
\* constructs (same number, same formats, same asset paths).
C8_HostileTextIsSafe ==
    \A k \in 1..Len(log) :
       log[k].wrote =>
          /\ Len(LinesOf(log[k].after)) = Len(LinesOf(log[k].before))
          /\ ConstructsOf(LinesOf(log[k].after)[log[k].item.line_number[1]])
               = ConstructsOf(
                   LinesOf(log[k].before)[log[k].item.line_number[1]])

\* C9: without a line number _apply_caption_to_file succeeds when the
\* asset occurs anywhere in the file: it does not raise, returns the pair
\* of old and new text, and leaves no line whose construct for the asset
\* still carries another text.
C9_WholeFileMode ==
    \A k \in 1..Len(log) :
       (/\ log[k].item.line_number = None
        /\ log[k].item.final_alt # None
        /\ \E i \in 1..Len(LinesOf(log[k].before)) :
              Recognized(LinesOf(log[k].before)[i], log[k].item.asset_path))
       => /\ ~log[k].raised
          /\ log[k].result # None
          /\ \A i \in 1..Len(LinesOf(log[k].after)) :
                Recognized(LinesOf(log[k].after)[i], log[k].item.asset_path)
                => Cascade(LinesOf(log[k].after)[i], log[k].item.asset_path,
                           <<"probe">>)[2] = log[k].item.final_alt

\* C1: after scan, review with a non-blank final_alt for every record,
\* apply_captions and a second scan, the second build_queue returns no
\* record.
C1_RoundTrip ==
    pc = "rescanned" => requeue = Some(<<>>)

\* The elements of a set of indices in increasing order.
RECURSIVE Ascending(_)
Ascending(S) ==
    IF S = {} THEN <<>> ELSE <<Min(S)>> \o Ascending(S \ {Min(S)})

\* The texts of the wikilink embeds of asset_path on line, in order.
WikilinkEmbeds(line, asset_path) ==
    LET at == Ascending({i \in 1..Len(line) :
                            WikilinkMatchAt(line, asset_path, i) # <<>>})
    IN [k \in 1..Len(at) |->
          Slice(line, at[k], WikilinkMatchAt(line, asset_path, at[k])[3])]

\* The texts of the <img> tags of asset_path on line, in order.
ImgTags(line, asset_path) ==
    LET at == Ascending({i \in 1..Len(line) :
                            ImgMatchAt(line, asset_path, i) # <<>>})
    IN [k \in 1..Len(at) |-> Slice(line, at[k], FirstIn(line, at[k], {">"}))]

\* The target line of entry e as the file held it before the call.
TargetLine(e) == LinesOf(e.before)[e.item.line_number[1]]

\* The text of lines from line number a on, as the patcher writes them
\* after another line: each preceded by "\n".
Following(lines, a) ==
    IF a > Len(lines) THEN <<>>
    ELSE <<LF>> \o JoinLines(Slice(lines, a, Len(lines)))

\* What the file holds after the call in place of the target line: the
\* written text without the lines before and after the target line and
\* without the final "\n".
WrittenLine(e) ==
    LET n == e.item.line_number[1]
        lines == LinesOf(e.before)
        head == IF n = 1 THEN 0
                ELSE Len(JoinLines(Slice(lines, 1, n - 1))) + 1
        tail == Len(Following(lines, n + 1))
                + (IF EndsWithNewline(ReadText(e.before)) THEN 1 ELSE 0)
    IN Slice(e.after, head + 1, Len(e.after) - tail)

\* The cascade property of one written entry, given what each recognizer
\* alone makes of the target line.
OneRecognizer(e, old, new, md, wk, html) ==
    /\ md[1] # old => new = md[1] /\ e.result[1][1] = md[2]
    /\ md[1] = old /\ wk[1] # old => new = wk[1] /\ e.result[1][1] = wk[2]
    /\ md[1] = old /\ wk[1] = old => new = html[1] /\ e.result[1][1] = html[2]
    /\ md[1] # old =>
          /\ WikilinkEmbeds(new, e.item.asset_path)
                = WikilinkEmbeds(old, e.item.asset_path)
          /\ ImgTags(new, e.item.asset_path) = ImgTags(old, e.item.asset_path)
    /\ md[1] = old /\ wk[1] # old =>
          ImgTags(new, e.item.asset_path) = ImgTags(old, e.item.asset_path)

RECURSIVE Normalized(_)
Normalized(t) ==
    IF t = <<>> THEN <<>>
    ELSE IF t[1] \in {LF, CR}
    THEN LET k == FirstNotIn(t, 1, {LF, CR})
         IN <<" ", ".", ".", ".", " ">>
            \o (IF k = 0 THEN <<>> ELSE Normalized(Slice(t, k, Len(t))))
    ELSE <<t[1]>> \o Normalized(Tail(t))

\* C12: a successful record leaves the file with as many lines as it had,
\* the text written in place of the target line holds no line break, and
\* it holds the new text with every run of line breaks replaced by the
\* separator " ... ".
C12_LineBreaksNormalized ==
    \A k \in 1..Len(log) :
       log[k].wrote =>
          /\ Len(LinesOf(log[k].after)) = Len(LinesOf(log[k].before))
          /\ \A i \in 1..Len(WrittenLine(log[k])) :
                WrittenLine(log[k])[i] \notin {LF, CR}
          /\ (\E i \in 1..Len(log[k].item.final_alt[1]) :
                 log[k].item.final_alt[1][i] \in {LF, CR})
             => Contains(WrittenLine(log[k]),
                         Normalized(log[k].item.final_alt[1]))

\* The markdown and wikilink escaping the claim describes: a backslash is
\* doubled and "$" gets a backslash.
RECURSIVE EscapeMarkdown(_)
EscapeMarkdown(t) ==
    IF t = <<>> THEN <<>>
    ELSE (IF t[1] = "\\" THEN <<"\\", "\\">>
          ELSE IF t[1] = "$" THEN <<"\\", "$">>
          ELSE <<t[1]>>)
         \o EscapeMarkdown(Tail(t))

\* The HTML attribute escaping the claim describes.
RECURSIVE EscapeHtml(_)
EscapeHtml(t) ==
    IF t = <<>> THEN <<>>
    ELSE (IF t[1] = "&" THEN <<"&amp;">>
          ELSE IF t[1] = "<" THEN <<"&lt;">>
          ELSE IF t[1] = ">" THEN <<"&gt;">>
          ELSE IF t[1] = QUOTE THEN <<"&quot;">>
          ELSE <<t[1]>>)
         \o EscapeHtml(Tail(t))

\* The line the claim expects in place of old: the rewrite of the
\* recognizer that applies, made with the escaped text.
EscapedRewrite(old, asset_path, t, md, wk) ==
    IF md[1] # old
    THEN _apply_markdown_image_alt(old, asset_path, EscapeMarkdown(t))[1]
    ELSE IF wk[1] # old
    THEN _apply_wikilink_image_alt(old, asset_path, EscapeMarkdown(t))[1]
    ELSE _apply_html_image_alt(old, asset_path, EscapeHtml(t))[1]

\* C13: the text a successful record writes (a text without line breaks)
\* is escaped for its format: in a markdown image or wikilink embed a
\* backslash is doubled and "$" is preceded by a backslash; in an <img>
\* alt value "&", "<", ">" and the double quote are written as entities.
C13_FormatEscaping ==
    \A k \in 1..Len(log) :
       (/\ log[k].wrote
        /\ \A i \in 1..Len(log[k].item.final_alt[1]) :
              log[k].item.final_alt[1][i] \notin {LF, CR})
       => WrittenLine(log[k])
            = EscapedRewrite(TargetLine(log[k]), log[k].item.asset_path,
                 log[k].item.final_alt[1],
                 _apply_markdown_image_alt(TargetLine(log[k]),
                     log[k].item.asset_path, log[k].item.final_alt[1]),
                 _apply_wikilink_image_alt(TargetLine(log[k]),
                     log[k].item.asset_path, log[k].item.final_alt[1]))

\* Record item matches the file holding bytes: _apply_caption_to_file
\* finds its construct there.
Matches(bytes, item) == _apply_caption_to_file(bytes, item, TRUE).result # None

\* C14: in a dry run no document ever differs from what it was when the
\* run started and no call writes; the count apply_captions returns is
\* the number of usable records that match their document.
C14_DryRunWritesNothing ==
    dry_run =>
       /\ disk = orig
       /\ \A k \in 1..Len(log) : ~log[k].wrote
       /\ pc = "done" =>
             applied_count =
                Cardinality({i \in 1..Len(captions_data) :
                   /\ Usable(captions_data[i])
                   /\ orig[captions_data[i].markdown_file] # None
                   /\ Matches(orig[captions_data[i].markdown_file][1],
                              captions_data[i])})

\* C14 witness: a finished dry run that counted two records.
C14_Witness ==
    pc = "done" /\ dry_run /\ applied_count = 2

\* C15: a file that does not exist is never created and never passed to
\* _apply_caption_to_file; apply_captions does not raise once the records
\* are grouped, every usable record of an existing file is still
\* attempted, and the returned count is the number of successful calls.
C15_MissingFileSkipped ==
    /\ \A md \in Files :
          orig[md] = None =>
             /\ disk[md] = None
             /\ \A k \in 1..Len(log) : log[k].md_file # md
    /\ by_file # <<>> => pc # "raised"
    /\ pc = "done" =>
          /\ Len(log) = RecordsOnExistingFiles
          /\ applied_count =
                Cardinality({k \in 1..Len(log) : log[k].result # None})

\* C15 witness: a finished run whose first record names a missing file
\* and whose second record was applied to an existing file.
C15_Witness ==
    /\ pc = "done"
    /\ Len(captions_data) = 2
    /\ Usable(captions_data[1])
    /\ orig[captions_data[1].markdown_file] = None
    /\ applied_count = 1
    /\ Len(log) = 1 /\ log[1].item = captions_data[2]

\* The final_alt of item is absent, empty or only whitespace.
BlankAlt(item) ==
    \/ item.final_alt = None
    \/ \A i \in 1..Len(item.final_alt[1]) : item.final_alt[1][i] \in Whitespace

\* apply_captions got past the loading of the captions list.
Loaded == pc \in {"files", "items", "done", "rescanned"}

\* C16: apply_captions never calls _apply_caption_to_file for a record
\* whose final_alt is absent, empty or only whitespace; the skip list it
\* prints holds exactly the (markdown_file, basename) pairs of those
\* records, each once, in ascending order; when every record is of that
\* kind it returns 0 and no file is read or written.
C16_UnusableNeverApplied ==
    Loaded =>
       /\ \A k \in 1..Len(log) : ~BlankAlt(log[k].item)
       /\ \A i, j \in 1..Len(skip_list) :
             i < j => EntryLess(skip_list[i], skip_list[j])
       /\ {skip_list[i] : i \in 1..Len(skip_list)}
             = {<<captions_data[i].markdown_file,
                  Basename(captions_data[i].asset_path)>> :
                   i \in {k \in 1..Len(captions_data) :
                             BlankAlt(captions_data[k])}}
       /\ (pc = "done" /\ \A i \in 1..Len(captions_data) :
                             BlankAlt(captions_data[i]))
          => applied_count = 0 /\ log = <<>> /\ disk = orig

\* C16 witness: a run whose list holds only unusable records, given out
\* of order, ended with a skip list of two entries.
C16_Witness ==
    /\ pc = "done"
    /\ Len(captions_data) = 2
    /\ BlankAlt(captions_data[1]) /\ BlankAlt(captions_data[2])
    /\ Len(skip_list) = 2
    /\ skip_list[1] = <<captions_data[2].markdown_file,
                        Basename(captions_data[2].asset_path)>>

\* The alt of a markdown image as _handle_md_asset reads it.
AltOf(content) == IF content = <<>> THEN None ELSE Some(content)

\* line holds a markdown image of asset_path without a meaningful alt.
DeficientImage(line, asset_path) ==
    \E i \in 1..Len(line) :
       /\ ImageAt(line, i) # <<>>
       /\ PathOf(Unquote(ImageAt(line, i)[1].src)) = asset_path
       /\ ~_is_alt_meaningful(AltOf(ImageAt(line, i)[1].content))

\* line holds a wikilink embed of asset_path without a meaningful alt.
DeficientEmbed(line, asset_path) ==
    \E k \in 1..Len(_iter_wikilink_images(line, 1)) :
       /\ PathOf(_iter_wikilink_images(line, 1)[k].src) = asset_path
       /\ ~_is_alt_meaningful(_iter_wikilink_images(line, 1)[k].alt)

\* line holds an <img> of asset_path without a meaningful alt.
DeficientImg(line, asset_path) ==
    \E k \in 1..Len(_extract_html_img_info(line)) :
       /\ PathOf(_extract_html_img_info(line)[k].src[1]) = asset_path
       /\ ~_is_alt_meaningful(_extract_html_img_info(line)[k].alt)

\* A <video> of asset_path without a meaningful label opens on line n of
\* lines; its <source> may stand on a later line.
DeficientVideo(lines, n, asset_path) ==
    \E i \in 1..Len(lines[n]) :
       /\ VideoTagEnd(lines[n], i) # 0
       /\ \E info \in {_extract_html_video_info(
                          Slice(lines[n], i, Len(lines[n]))
                          \o Following(lines, n + 1))[1]} :
             /\ PathOf(info.src[1]) = asset_path
             /\ ~_is_video_label_meaningful(info.aria_label)

\* Line n of lines holds a deficient construct of asset_path.
DeficientOn(lines, n, asset_path) ==
    /\ n \in 1..Len(lines)
    /\ \/ DeficientImage(lines[n], asset_path)
       \/ DeficientEmbed(lines[n], asset_path)
       \/ DeficientImg(lines[n], asset_path)
       \/ DeficientVideo(lines, n, asset_path)

\* C17: every record build_queue returns names a line of its file that
\* holds a construct of the record's asset_path whose alt text or label
\* is missing or a placeholder.
C17_RecordsAnchored ==
    queue # None =>
       \A k \in 1..Len(queue[1]) :
          DeficientOn(LinesOf(disk[queue[1][k].markdown_file][1]),
                      queue[1][k].line_number, queue[1][k].asset_path)

\* The number of deficient constructs of asset_path in the text of a
\* document: markdown images, wikilink embeds, <img> tags that are not
\* marked decorative, and <video> elements.
DeficientCount(text, asset_path) ==
    Cardinality({i \in 1..Len(text) :
                    /\ ImageAt(text, i) # <<>>
                    /\ PathOf(Unquote(ImageAt(text, i)[1].src)) = asset_path
                    /\ ~_is_alt_meaningful(
                           AltOf(ImageAt(text, i)[1].content))})
    + Cardinality({k \in 1..Len(_iter_wikilink_images(text, 1)) :
                    /\ PathOf(_iter_wikilink_images(text, 1)[k].src)
                          = asset_path
                    /\ HasAssetExt(_iter_wikilink_images(text, 1)[k].src)
                    /\ ~_is_alt_meaningful(
                           _iter_wikilink_images(text, 1)[k].alt)})
    + Cardinality({k \in 1..Len(_extract_html_img_info(text)) :
                    /\ PathOf(_extract_html_img_info(text)[k].src[1])
                          = asset_path
                    /\ _extract_html_img_info(text)[k].alt
                          \notin {Some(<<>>), Some(<<" ">>)}
                    /\ ~_is_alt_meaningful(
                           _extract_html_img_info(text)[k].alt)})
    + Cardinality({k \in 1..Len(_extract_html_video_info(text)) :
                    /\ PathOf(_extract_html_video_info(text)[k].src[1])
                          = asset_path
                    /\ ~_is_video_label_meaningful(
                           _extract_html_video_info(text)[k].aria_label)})

\* The number of records of items for asset_path in md_file.
RecordCount(items, md_file, asset_path) ==
    Cardinality({k \in 1..Len(items) :
                    /\ items[k].markdown_file = md_file
                    /\ items[k].asset_path = asset_path})

\* The asset_path values a record can carry.
RecordPaths == AssetPaths \cup {"e&", "other"}

\* C18: when build_queue has returned, every document has for every
\* asset path as many records as it has deficient constructs of that
\* path: none is omitted and none is recorded twice.
C18_OneRecordPerOccurrence ==
    pc = "queued" =>
       \A f \in Files, a \in RecordPaths :
          disk[f] # None =>
             RecordCount(queue[1], f, a)
                = DeficientCount(ReadText(disk[f][1]), a)

\* The number of deficient <video> elements of asset_path in content.
VideoCount(content, asset_path) ==
    Cardinality({k \in 1..Len(_extract_html_video_info(content)) :
                    /\ PathOf(_extract_html_video_info(content)[k].src[1])
                          = asset_path
                    /\ ~_is_video_label_meaningful(
                           _extract_html_video_info(content)[k].aria_label)})

\* VideoCount summed over the tokens of the given type that _process_file
\* examines for videos: every inline token, and an HTML block without an
\* <img>.
RECURSIVE VideosIn(_, _, _)
VideosIn(tokens, type, asset_path) ==
    IF tokens = <<>> THEN 0
    ELSE (IF tokens[1].type = type
             /\ (type = "inline" \/ FindAllImg(tokens[1].content, 1) = <<>>)
          THEN VideoCount(tokens[1].content, asset_path) ELSE 0)
         + VideosIn(Tail(tokens), type, asset_path)

\* asset_path is referenced by no deficient construct of text other than
\* videos.
OnlyVideos(text, asset_path) ==
    DeficientCount(text, asset_path)
       = VideoCount(text, asset_path)

\* C19: for a path that only videos reference, a document whose
\* paragraphs hold deficient videos of the path has one record per such
\* video, the detections in nested and block-level fragments being
\* suppressed; a document that holds them only in HTML blocks has one
\* record per video of those blocks.
C19_VideoDedup ==
    pc = "queued" =>
       \A f \in Files, a \in RecordPaths :
          (disk[f] # None /\ OnlyVideos(ReadText(disk[f][1]), a)) =>
             RecordCount(queue[1], f, a)
                = IF VideosIn(Parse(ReadText(disk[f][1])), "inline", a) > 0
                  THEN VideosIn(Parse(ReadText(disk[f][1])), "inline", a)
                  ELSE VideosIn(Parse(ReadText(disk[f][1])), "html_block", a)

\* The numbers of the lines that contain candidate.
LinesWith(lines, candidate) ==
    {k \in 1..Len(lines) : InLine(candidate, lines[k])}

\* line_no is the number of the first line that contains the first of
\* candidates that any line contains.
FirstOfFirst(lines, candidates, line_no) ==
    \E c \in 1..Len(candidates) :
       /\ LinesWith(lines, candidates[c]) # {}
       /\ \A b \in 1..(c - 1) : LinesWith(lines, candidates[b]) = {}
       /\ line_no = Min(LinesWith(lines, candidates[c]))

\* text holds a markdown image without a meaningful alt whose search key
\* is in no line of text in any form.
Unresolvable(text) ==
    \E i \in 1..Len(text) :
       /\ ImageAt(text, i) # <<>>
       /\ ~_is_alt_meaningful(AltOf(ImageAt(text, i)[1].content))
       /\ \A c \in 1..4 :
             LinesWith(SplitLines(text),
                       Candidates(<<"(">> \o ImageAt(text, i)[1].src
                                  \o <<")">>)[c]) = {}

Meaningful(alt, placeholders) ==
    /\ alt # None
    /\ \E k \in 1..Len(alt[1]) : alt[1][k] \notin Whitespace
    /\ \A w \in placeholders : Lower(Strip(alt[1])) # w

\* The rule for an <img>: queued when the alt attribute is absent or a
\* placeholder word, not when it is empty or blank.
ImgQueued(alt) ==
    \/ alt = None
    \/ /\ Strip(alt[1]) # <<>>
       /\ ~Meaningful(alt, _PLACEHOLDER_ALTS)

\* Some token of tokens holds a markdown image, a wikilink embed or an
\* <img> of asset_path that the rule queues.
RECURSIVE QueuedByRule(_, _)
QueuedByRule(tokens, asset_path) ==
    IF tokens = <<>> THEN FALSE
    ELSE \/ /\ tokens[1].type = "image"
            /\ tokens[1].src # <<>>
            /\ PathOf(Unquote(tokens[1].src)) = asset_path
            /\ ~Meaningful(AltOf(tokens[1].content), _PLACEHOLDER_ALTS)
         \/ /\ tokens[1].type = "inline"
            /\ \E k \in 1..Len(_iter_wikilink_images(tokens[1].content, 1)) :
                  LET info == _iter_wikilink_images(tokens[1].content, 1)[k]
                  IN /\ PathOf(info.src) = asset_path
                     /\ HasAssetExt(info.src)
                     /\ ~Meaningful(info.alt, _PLACEHOLDER_ALTS)
         \/ /\ tokens[1].type \in {"html_inline", "html_block"}
            /\ \E k \in 1..Len(_extract_html_img_info(tokens[1].content)) :
                  LET info == _extract_html_img_info(tokens[1].content)[k]
                  IN /\ PathOf(info.src[1]) = asset_path
                     /\ ImgQueued(info.alt)
         \/ QueuedByRule(Tail(tokens), asset_path)

\* C21: when build_queue has returned, a path that no video of the
\* document references has a record exactly when a markdown image or a
\* wikilink embed of the path has no meaningful alt, or an <img> of the
\* path has no alt attribute or a placeholder word as alt; an <img> with
\* an empty alt adds none.
C21_QueueingRule ==
    pc = "queued" =>
       \A f \in Files, a \in RecordPaths :
          (disk[f] # None /\ VideoCount(ReadText(disk[f][1]), a) = 0) =>
             (RecordCount(queue[1], f, a) > 0
                <=> QueuedByRule(_iter_media_tokens(
                                    Parse(ReadText(disk[f][1]))), a))

\* A queue for a document with a placeholder alt written "Image" and a
\* meaningful alt: only the first is recorded.
C21_Witness ==
    /\ pc = "queued"
    /\ disk["f1"] # None
    /\ Contains(ReadText(disk["f1"][1]), <<"[", "Image", "]">>)
    /\ RecordCount(queue[1], "f1", "p") = 1
    /\ RecordCount(queue[1], "f1", "q") = 0

\* line[i..k] is ![alt](asset_path) with the "]" at j, an alt without
\* "]" and nothing but whitespace between the path and the ")".
ImageSpan(line, asset_path, i, j, k) ==
    /\ 1 <= i /\ i + 1 < j /\ j + 2 < k /\ k <= Len(line)
    /\ line[i] = "!" /\ line[i + 1] = "["
    /\ \A x \in (i + 2)..(j - 1) : line[x] # "]"
    /\ line[j] = "]" /\ line[j + 1] = "(" /\ line[j + 2] = asset_path
    /\ \A x \in (j + 3)..(k - 1) : line[x] \in Whitespace
    /\ line[k] = ")"

\* The positions of line.
Pos(line) == 1..Len(line)

\* C22: a call of _apply_markdown_image_alt on a line that holds
\* ![alt](asset_path), with or without whitespace before the ")",
\* returns the line with the first such image replaced by
\* ![new_alt](asset_path) and everything around it kept, and the old alt
\* (None when it was empty); on a line without such an image it returns
\* the line and None.
C22_MarkdownRewrite ==
    (probe # None /\ probe[1].fn = "markdown") =>
       LET r == probe[1]
       IN IF \E i, j, k \in Pos(r.line) :
                ImageSpan(r.line, r.asset_path, i, j, k)
          THEN \E i, j, k \in Pos(r.line) :
                  /\ ImageSpan(r.line, r.asset_path, i, j, k)
                  /\ \A i2, j2, k2 \in Pos(r.line) :
                        ImageSpan(r.line, r.asset_path, i2, j2, k2)
                        => i <= i2
                  /\ r.new_line
                        = Slice(r.line, 1, i - 1)
                          \o <<"!", "[">> \o r.new_alt
                          \o <<"]", "(", r.asset_path, ")">>
                          \o Slice(r.line, k + 1, Len(r.line))
                  /\ r.old_alt = IF j = i + 2 THEN None
                                 ELSE Some(Slice(r.line, i + 2, j - 1))
          ELSE r.new_line = r.line /\ r.old_alt = None

\* A call on a line with two images of the path: the first is rewritten,
\* the second keeps its alt.
C22_Witness ==
    /\ probe # None
    /\ probe[1].fn = "markdown"
    /\ probe[1].line = <<"!", "[", "]", "(", "p", ")", " ",
                         "!", "[", "y", "]", "(", "p", ")">>
    /\ probe[1].new_line = <<"!", "[", "x", "]", "(", "p", ")", " ",
                             "!", "[", "y", "]", "(", "p", ")">>
    /\ probe[1].old_alt = None

\* The text of the tag of line that starts at i and ends at the first
\* ">" after it.
TagText(line, i) == Slice(line, i, FirstIn(line, i, {">"}))

\* The <img> tags of line with src="asset_path": the indices where a
\* closed tag starts, in either spelling of its name.
ImgTagsOf(line, asset_path) ==
    {i \in Pos(line) :
        /\ line[i] \in ImgOpen
        /\ FirstIn(line, i, {">"}) # 0
        /\ \E k \in (i + 1)..FirstIn(line, i, {">"}) :
              SrcAt(line, asset_path, k)}

\* text is a tag that ends with "/>".
SelfClosed(text) ==
    Len(text) >= 2 /\ text[Len(text)] = ">" /\ text[Len(text) - 1] = "/"

\* C23: a call of _apply_html_image_alt on a line with an <img> of the
\* path returns a line whose first such tag carries alt="new_alt" and
\* ends with "/>", and the previous alt value or None; on a line
\* without such a tag it returns the line and None.
C23_HtmlRewrite ==
    (probe # None /\ probe[1].fn = "html") =>
       LET r == probe[1]
       IN IF ImgTagsOf(r.line, r.asset_path) = {}
          THEN r.new_line = r.line /\ r.old_alt = None
          ELSE /\ ImgTagsOf(r.new_line, r.asset_path) # {}
               /\ LET tag == TagText(r.new_line,
                                     Min(ImgTagsOf(r.new_line, r.asset_path)))
                  IN /\ Contains(tag, <<"alt=", QUOTE>> \o r.new_alt
                                      \o <<QUOTE>>)
                     /\ SelfClosed(tag)

\* line with the tag and attribute names written in lower case.
LowerNames(line) ==
    [k \in 1..Len(line) |->
        IF line[k] \in ImgOpen THEN "<img"
        ELSE IF line[k] \in SrcAttr THEN "src="
        ELSE IF line[k] \in AltAttr THEN "alt=" ELSE line[k]]

\* C24: a call of _apply_html_image_alt on a line with an <img> of the
\* path whose tag or attribute names are written in upper case returns a
\* line that differs from the input and holds alt="new_alt".
C24_CaseInsensitive ==
    (/\ probe # None
     /\ probe[1].fn = "html"
     /\ probe[1].line # LowerNames(probe[1].line)
     /\ ImgTagsOf(probe[1].line, probe[1].asset_path) # {})
    => /\ probe[1].new_line # probe[1].line
       /\ Contains(LowerNames(probe[1].new_line),
                   <<"alt=", QUOTE>> \o probe[1].new_alt \o <<QUOTE>>)

\* line[i..k] is ![[asset_path]] or ![[asset_path|alt]] with an alt
\* without "]"; j is the index after the path.
EmbedSpan(line, asset_path, i, j, k) ==
    /\ 1 <= i /\ j = i + 4 /\ j < k /\ k <= Len(line)
    /\ line[i] = "!" /\ line[i + 1] = "[" /\ line[i + 2] = "["
    /\ line[i + 3] = asset_path
    /\ line[k - 1] = "]" /\ line[k] = "]"
    /\ \/ k = j + 1
       \/ /\ line[j] = "|"
          /\ \A x \in (j + 1)..(k - 2) : line[x] # "]"

\* C25: a call of _apply_wikilink_image_alt on a line that holds
\* ![[asset_path]] or ![[asset_path|alt]] returns the line with the
\* first such embed replaced by ![[asset_path|new_alt]] and everything
\* around it kept, and the old alt (None when there was none or it was
\* empty); on a line without such an embed it returns the line and None.
C25_WikilinkRewrite ==
    (probe # None /\ probe[1].fn = "wikilink") =>
       LET r == probe[1]
       IN IF \E i, j, k \in Pos(r.line) :
                EmbedSpan(r.line, r.asset_path, i, j, k)
          THEN \E i, j, k \in Pos(r.line) :
                  /\ EmbedSpan(r.line, r.asset_path, i, j, k)
                  /\ \A i2, j2, k2 \in Pos(r.line) :
                        EmbedSpan(r.line, r.asset_path, i2, j2, k2)
                        => i <= i2
                  /\ r.new_line
                        = Slice(r.line, 1, i - 1)
                          \o <<"!", "[", "[", r.asset_path, "|">>
                          \o r.new_alt \o <<"]", "]">>
                          \o Slice(r.line, k + 1, Len(r.line))
                  /\ r.old_alt = IF k <= j + 2 THEN None
                                 ELSE Some(Slice(r.line, j + 1, k - 2))
          ELSE r.new_line = r.line /\ r.old_alt = None

\* A call on a line with two embeds of the path without alt: the first
\* gets the pipe and the new text, the second is kept.
C25_Witness ==
    /\ probe # None
    /\ probe[1].fn = "wikilink"
    /\ probe[1].line = WikiP \o <<" ">> \o WikiP
    /\ probe[1].new_line = <<"!", "[", "[", "p", "|", "x", "]", "]", " ">>
                           \o WikiP
    /\ probe[1].old_alt = None

\* Entry e is a call for a line in range that holds a <video> of the
\* record's path and no image construct of it.
VideoEntry(e) ==
    /\ e.item.final_alt # None
    /\ e.item.line_number # None
    /\ e.item.line_number[1] \in 1..Len(LinesOf(e.before))
    /\ VideoCount(TargetLine(e), e.item.asset_path) > 0
    /\ ~Recognized(TargetLine(e), e.item.asset_path)

\* C26: a call for a line whose construct of the path is a <video>
\* succeeds, and with dry_run off the line written in place of the target
\* line holds aria-label="final_alt".
C26_VideoLabelApplied ==
    \A k \in 1..Len(log) :
       VideoEntry(log[k]) =>
          /\ log[k].result # None
          /\ ~dry_run =>
                Contains(WrittenLine(log[k]),
                         <<"aria-label=", QUOTE>> \o log[k].item.final_alt[1]
                         \o <<QUOTE>>)

\* C27: constructing a QueueItem fails exactly when line_number is 0 or
\* negative, and every record of a queue that build_queue returned has a
\* line_number of at least 1.
C27_PositiveLineNumbers ==
    /\ made # None =>
          /\ made[1].raised <=> made[1].line_number < 1
          /\ made[1].raised <=> made[1].item = None
    /\ queue # None =>
          \A k \in 1..Len(queue[1]) : queue[1][k].line_number >= 1
    /\ requeue # None =>
          \A k \in 1..Len(requeue[1]) : requeue[1][k].line_number >= 1

\* A construction with line_number 0, which raised.
C27_Witness ==
    made # None /\ made[1].line_number = 0 /\ made[1].raised

\* What a run with dry_run on reports for the record of entry e: its
\* files stay as they were when the run started.
DryResult(e) ==
    _apply_caption_to_file(orig[e.md_file][1], e.item, TRUE).result

\* C28: when apply_captions has returned, every record it applied
\* succeeded exactly if it succeeds in a run with dry_run on that starts
\* from the same documents, so the two runs return the same count.
C28_DryRunSameReport ==
    pc = "done" =>
       \A k \in 1..Len(log) :
          (log[k].result # None) <=> (DryResult(log[k]) # None)

\* C29: when a record is applied a second time right after its first
\* application succeeded and was written, the second call leaves the file
\* as the first left it.
C29_ReapplyIsNoOp ==
    \A k \in 1..(Len(log) - 1) :
       (/\ log[k + 1].item = log[k].item
        /\ log[k + 1].md_file = log[k].md_file
        /\ log[k].result # None
        /\ log[k].wrote)
       => log[k + 1].after = log[k + 1].before

\* Entry e makes the conversion fail: it has a final_alt that is not
\* blank and a null line_number.
Malformed(e) == ~BlankAlt(e) /\ e.line_number = None

\* C30: with a malformed entry anywhere in the captions list,
\* apply_captions never reaches its loop over the files, and when it has
\* raised every document is as it was before the run and no record was
\* applied.
C30_LoadErrorsBeforeMutation ==
    (\E i \in 1..Len(captions_data) : Malformed(captions_data[i])) =>
       /\ pc \notin {"files", "items", "done", "rescanned"}
       /\ pc = "raised" => (disk = orig /\ applied_count = 0)

\* A run that raised while loading although the first entry of the list
\* is well-formed and its construct is on its line.
C30_Witness ==
    /\ pc = "raised"
    /\ log = <<>>
    /\ Len(captions_data) = 2
    /\ Malformed(captions_data[2])
    /\ ~BlankAlt(captions_data[1])
    /\ captions_data[1].line_number = Some(1)
    /\ disk[captions_data[1].markdown_file] # None
    /\ Recognized(LinesOf(disk[captions_data[1].markdown_file][1])[1],
                  captions_data[1].asset_path)
    /\ disk = orig

====
